---- MODULE Spec2Model ----
(***************************************************************************)
(* Verification model of the wargames-ai-backend data-access layer         *)
(* (src/src/backend/db_api.py) and evaluation engine                       *)
(* (src/src/backend/evaluation.py).                                        *)
(*                                                                         *)
(* Every request runs in its own database session (get_db yields a new     *)
(* Session per request).  A session is modelled by a process p; the        *)
(* statements of one handler that touch the database are separate steps,   *)
(* so that handlers of different server workers interleave at statement    *)
(* granularity.  Committed rows live in the table variables.               *)
(***************************************************************************)
EXTENDS Integers, Sequences, FiniteSets, TLC

(***************************************************************************)
(* Bounds of the model.                                                    *)
(***************************************************************************)
NumProcs == 2          \* concurrent sessions
MaxCalls == 2          \* handler invocations started in a concurrent behaviour
MaxSeqCalls == 3       \* handler invocations started in a sequential behaviour
MaxClock == 3          \* wall-clock instants seen by join_tournament
MAX_USER_MESSAGE_COUNT_FOR_CHALLENGE == 2   \* backend.config (value not under src/)
MaxLog == 2            \* stored chat entries of a finished conversation
MaxPrompts == 3        \* prompts of a red-team run (test_prompts, max_attempts)
MaxIdle == 3           \* idle connections earlier requests left in the pool

Procs == 1..NumProcs

(***************************************************************************)
(* Value domains.                                                          *)
(***************************************************************************)
Null == 0                                  \* a NULL timestamp / foreign key
None == "<None>"                           \* a NULL text column
Tools == {"scanner", "reporter"}
Roles == {"user", "assistant", "system"}   \* Literal[...] of add_message_to_challenge

\* EvalStatus, src/src/backend/models/evaluation.py:12-16
NOT_EVALUATED == "NOT_EVALUATED"
SUCCEEDED == "SUCCEEDED"
FAILED == "FAILED"
ERRORED == "ERRORED"

\* Python truthiness of an Optional[str]
Truthy(s) == s # None /\ s # ""
\* Python `a or b` on Optional[str]
OrElse(a, b) == IF Truthy(a) THEN a ELSE b

\* str.strip() on the prompts of the model
Strip(s) == IF s = " " THEN "" ELSE s

VARIABLES
    challenges,                      \* Challenges rows: id -> [required_tools, evaluation_prompt, ...]
    user_challenge_contexts,         \* UserChallengeContexts rows, in id order
    challenge_evaluations,           \* ChallengeEvaluations rows, in id order
    user_challenge_context_messages, \* UserChallengeContextMessages rows, in insertion order
    tournaments,                     \* Tournaments rows: id -> [start_date, end_date]
    user_tournament_enrollments,     \* UserTournamentEnrollments rows, in id order
    clock,                           \* datetime.now(UTC)
    lock,                            \* connection holding the advisory lock of the context id (0: free)
    pc,                              \* position of each session's handler
    arg,                             \* arguments of the handler a session is running
    sess_eval,                       \* the session's in-memory ChallengeEvaluations instance
    pending,                         \* locals of evaluate_challenge_context between its commits
    ret,                             \* outcome of the last handler that ended in each session
    calls,                           \* number of handler invocations started
    user_appends,                    \* number of user-role rows add_message_to_challenge stored
    mark_count,                      \* number of commits that stamped processed_at
    outcome_writers,                 \* sessions that committed an outcome timestamp
    judge_calls,                     \* number of LLM judge requests issued
    history,                         \* what each ended evaluate call returned and left behind
    users,                           \* Users rows, in id order
    sessions,                        \* the Session object each process holds: [id, failed]
    ensure_user_cache,               \* functools.cache of ensure_user_exists: (session, sub) -> Users row
    executed_tools,                  \* number of ToolRegistry.execute_tool invocations
    pool,                            \* the engine's QueuePool: [idle, held, opened]
    lock_depth,                      \* times the holding connection has taken the advisory lock
    auth_handler,                    \* the SupabaseAuth object: [supabase, cache]
    wall,                            \* time.time(), in seconds
    provider_calls,                  \* the supabase.auth.get_user calls made: [token, time, ok]
    evaluate_requests                \* the GET /challenges/{id}/evaluate requests made: [user_id, challenge_id]

tables == <<challenges, user_challenge_contexts, challenge_evaluations,
            user_challenge_context_messages, tournaments, user_tournament_enrollments>>
locals == <<pc, arg, sess_eval, pending, ret>>
ghosts == <<calls, user_appends, mark_count, outcome_writers, judge_calls, history>>
ext == <<users, sessions, ensure_user_cache, executed_tools>>
engine == <<pool, lock_depth>>
auth == <<auth_handler, wall, provider_calls>>
vars == <<tables, clock, lock, locals, ghosts, ext, engine, auth, evaluate_requests>>

(***************************************************************************)
(* Table helpers: SELECT ... WHERE ... .first(), UPDATE of one row.        *)
(***************************************************************************)
\* the first of the rows with indexes S, 0 when there is none
FirstIndex(S) ==
    IF S = {} THEN 0 ELSE CHOOSE i \in S : \A j \in S : i <= j

\* the lookup filters on the user only
ContextIndex_user_only(u, c) ==
    FirstIndex({i \in DOMAIN user_challenge_contexts :
                    user_challenge_contexts[i].user_id = u})

\* select(UserChallengeContexts).where(user_id == u, challenge_id == c).first()
ContextIndex(u, c) ==
    FirstIndex({i \in DOMAIN user_challenge_contexts :
                    /\ user_challenge_contexts[i].user_id = u
                    /\ user_challenge_contexts[i].challenge_id = c})

\* select(ChallengeEvaluations).where(user_challenge_context_id == cid).first()
EvaluationIndex(cid) ==
    FirstIndex({i \in DOMAIN challenge_evaluations :
                    challenge_evaluations[i].user_challenge_context_id = cid})

\* the stored row of a loaded evaluation instance (UPDATE ... WHERE id = ...)
EvaluationIndexById(id) ==
    FirstIndex({i \in DOMAIN challenge_evaluations : challenge_evaluations[i].id = id})

\* the context row an evaluation row refers to (relationship user_challenge_context)
ContextIndexById(cid) ==
    FirstIndex({i \in DOMAIN user_challenge_contexts : user_challenge_contexts[i].id = cid})

NoRet == [kind |-> "none"]
Raise(op, e, m) == [kind |-> "raise", op |-> op, exc |-> e, message |-> m]
Return(op, v) == [kind |-> "return", op |-> op, value |-> v]
NoArg == [op |-> "none"]
NoPending == [raised |-> FALSE, outcome |-> "none", result_text |-> "not processed", now |-> Null]

\* UPDATE of the row at index i of table t
UpdateRow(t, i, new) == [j \in DOMAIN t |-> IF j = i THEN new ELSE t[j]]

(***************************************************************************)
(* The connection pool of the engine, database/connection.py:24-40: a      *)
(* QueuePool handing out idle connections first in, first out.  A Session  *)
(* takes a connection for its first statement of a transaction and gives   *)
(* it back at commit, rollback and close.  An advisory lock belongs to the *)
(* connection that took it and stays with it when the connection goes back *)
(* to the pool.                                                            *)
(***************************************************************************)
\* the connection of the first statement of a transaction
Checkout(pl, p) ==
    IF pl.held[p] # 0 THEN pl
    ELSE IF pl.idle # <<>>
    THEN [pl EXCEPT !.held[p] = Head(pl.idle), !.idle = Tail(pl.idle)]
    ELSE [pl EXCEPT !.held[p] = pl.opened + 1, !.opened = pl.opened + 1]

\* session.commit(), session.close(): the connection returns to the queue
Release(pl, p) ==
    IF pl.held[p] = 0 THEN pl
    ELSE [pl EXCEPT !.idle = Append(pl.idle, pl.held[p]), !.held[p] = 0]

\* a handler that runs its statements and ends: get_db closes the session
RunAndClose(pl, p) == Release(Checkout(pl, p), p)

(***************************************************************************)
(* start_challenge, src/src/backend/db_api.py:233-275.                     *)
(***************************************************************************)
NewContext(u, c) ==
    [id |-> Len(user_challenge_contexts) + 1, user_id |-> u, challenge_id |-> c,
     can_contribute |-> TRUE]

\* the evaluation row is inserted without the id of the flushed context
NewEvaluation_detached(cid) ==
    [id |-> Len(challenge_evaluations) + 1, user_challenge_context_id |-> Null,
     processed_at |-> Null, succeeded_at |-> Null, failed_at |-> Null,
     errored_at |-> Null, result |-> None, result_text |-> None]

\* lines 266-269: the evaluation row of the context flushed at line 264
NewEvaluation(cid) ==
    [id |-> Len(challenge_evaluations) + 1, user_challenge_context_id |-> cid,
     processed_at |-> Null, succeeded_at |-> Null, failed_at |-> Null,
     errored_at |-> Null, result |-> None, result_text |-> None]

\* lines 244-254: look the context up, return it when it exists
start_challenge_select(p, u, c) ==
    /\ pc[p] = "idle"
    /\ UNCHANGED <<auth, evaluate_requests>>
    /\ UNCHANGED <<ext, engine>>
    /\ calls' = calls + 1
    /\ LET i == ContextIndex(u, c)
       IN IF i # 0
          THEN /\ ret' = [ret EXCEPT ![p] = Return("start", user_challenge_contexts[i].id)]
               /\ UNCHANGED <<pc, arg>>
          ELSE /\ pc' = [pc EXCEPT ![p] = "start_commit"]
               /\ arg' = [arg EXCEPT ![p] = [op |-> "start", user_id |-> u, challenge_id |-> c]]
               /\ ret' = [ret EXCEPT ![p] = NoRet]
    /\ UNCHANGED <<tables, clock, lock, sess_eval, pending, user_appends,
                   mark_count, outcome_writers, judge_calls, history>>

\* lines 256-275: INSERT the context (flush), INSERT its evaluation, one commit.
\* uq_user_challenge (models.py:101) rejects a second row of the pair.
start_challenge_commit(p) ==
    /\ pc[p] = "start_commit"
    /\ UNCHANGED <<auth, evaluate_requests>>
    /\ UNCHANGED <<ext, engine>>
    /\ pc' = [pc EXCEPT ![p] = "idle"]
    /\ arg' = [arg EXCEPT ![p] = NoArg]
    /\ IF ContextIndex(arg[p].user_id, arg[p].challenge_id) # 0
       THEN /\ ret' = [ret EXCEPT ![p] = Raise("start", "IntegrityError", "uq_user_challenge")]
            /\ UNCHANGED <<user_challenge_contexts, challenge_evaluations>>
       ELSE LET ctx == NewContext(arg[p].user_id, arg[p].challenge_id)
            IN /\ user_challenge_contexts' = Append(user_challenge_contexts, ctx)
               /\ challenge_evaluations' = Append(challenge_evaluations, NewEvaluation(ctx.id))
               /\ ret' = [ret EXCEPT ![p] = Return("start", ctx.id)]
    /\ UNCHANGED <<challenges, user_challenge_context_messages, tournaments,
                   user_tournament_enrollments, clock, lock, sess_eval, pending, ghosts>>

(***************************************************************************)
(* Stored chat entries and their replay.                                   *)
(***************************************************************************)
KnownContentTypes ==
    {"ChatRequest", "ChatResponseWithTools", "ChatMessageWithTools", "ChatResponse"}

MessagesOf(cid) ==
    SelectSeq(user_challenge_context_messages, LAMBDA r : r.user_challenge_context_id = cid)

\* _instantiate_challenge_context_messages, db_api.py:403-414: a row whose
\* content_type is not one of the known ones raises ValueError
ReplayRaises(cid) ==
    \E i \in DOMAIN MessagesOf(cid) : MessagesOf(cid)[i].content_type \notin KnownContentTypes

\* get_called_tools, evaluation.py:133-152 with map_chat_entries_to_messages,
\* shim.py:24-53: only a ChatMessageWithTools entry that carries tool calls is
\* mapped to a Message with is_tool_call set
get_called_tools(cid) ==
    UNION {MessagesOf(cid)[i].tool_calls :
              i \in {j \in DOMAIN MessagesOf(cid) :
                        MessagesOf(cid)[j].content_type = "ChatMessageWithTools"}}

(***************************************************************************)
(* The LLM judge, evaluation.py:92-130.                                    *)
(***************************************************************************)
JudgeReplies ==
    {[kind |-> "json", success |-> 1, reason |-> "met criteria"],
     [kind |-> "json", success |-> 0, reason |-> "criteria not met"],
     [kind |-> "json", success |-> 1, reason |-> ""],
     [kind |-> "undecodable", success |-> 0, reason |-> ""],
     [kind |-> "api_error", success |-> 0, reason |-> ""]}

\* get_raw_llm_evaluation: the reply or the exception it ends in
get_raw_llm_evaluation(reply) ==
    CASE reply.kind = "api_error" ->
            [raised |-> TRUE, message |-> "LLM API error", success |-> 0, reason |-> ""]
      [] reply.kind = "undecodable" ->
            [raised |-> TRUE, message |-> "Unknown error decoding evaluation result",
             success |-> 0, reason |-> ""]
      [] OTHER ->
            [raised |-> FALSE, message |-> "", success |-> reply.success, reason |-> reply.reason]

(***************************************************************************)
(* _get_evaluation_result, evaluation.py:155-190.  The result carries the  *)
(* exception message when the computation raises, and whether a judge      *)
(* request was sent.                                                       *)
(***************************************************************************)
Verdict(status, reason, judged) ==
    [raised |-> FALSE, status |-> status, reason |-> reason, message |-> "", judged |-> judged]
VerdictRaise(message, judged) ==
    [raised |-> TRUE, status |-> NOT_EVALUATED, reason |-> "Unknown", message |-> message,
     judged |-> judged]

\* the required-tool check passes whatever was called
ToolCheck_lenient(ch, cid) ==
    IF ch.required_tools = {} THEN Verdict(NOT_EVALUATED, "Unknown", FALSE)
    ELSE Verdict(SUCCEEDED, "All tools called.", FALSE)

\* lines 163-174: the required-tool check
ToolCheck(ch, cid) ==
    IF ch.required_tools = {} THEN Verdict(NOT_EVALUATED, "Unknown", FALSE)
    ELSE IF ReplayRaises(cid) THEN VerdictRaise("Unknown content type", FALSE)
    ELSE IF ch.required_tools \ get_called_tools(cid) # {}
         THEN Verdict(FAILED, "Not all tools called", FALSE)
         ELSE Verdict(SUCCEEDED, "All tools called.", FALSE)

get_evaluation_result(ch, cid, reply) ==
    IF ~Truthy(ch.evaluation_prompt) /\ ch.required_tools = {}
    THEN VerdictRaise("Invalid challenge specification.", FALSE)
    ELSE LET tc == ToolCheck(ch, cid)
         IN IF tc.raised THEN tc
            ELSE IF Truthy(ch.evaluation_prompt) /\ Truthy(Strip(ch.evaluation_prompt))
                    /\ tc.status # FAILED
            THEN IF ReplayRaises(cid) THEN VerdictRaise("Unknown content type", FALSE)
                 ELSE LET j == get_raw_llm_evaluation(reply)
                      IN IF j.raised THEN VerdictRaise(j.message, TRUE)
                         ELSE Verdict(IF j.success # 0 THEN SUCCEEDED ELSE FAILED,
                                      j.reason, TRUE)
            ELSE tc

(***************************************************************************)
(* format_eval_result, evaluation.py:193-206.                              *)
(***************************************************************************)
format_eval_result(evaluation) ==
    [reason |-> OrElse(evaluation.result_text, "No result text"),
     status |-> IF evaluation.succeeded_at # Null THEN SUCCEEDED
                ELSE IF evaluation.failed_at # Null THEN FAILED
                ELSE IF evaluation.errored_at # Null THEN ERRORED
                ELSE NOT_EVALUATED,
     challenge_id |->
        user_challenge_contexts[ContextIndexById(evaluation.user_challenge_context_id)].challenge_id]

(***************************************************************************)
(* evaluate_challenge_context, evaluation.py:209-255.                      *)
(***************************************************************************)
EndEvaluate(p, r) ==
    /\ ret' = [ret EXCEPT ![p] = r]
    /\ pc' = [pc EXCEPT ![p] = "idle"]
    /\ arg' = [arg EXCEPT ![p] = NoArg]

\* the early return of line 220 is never taken
AlreadyProcessed_never(evaluation) == FALSE

\* line 220: if evaluation.processed_at is not None
AlreadyProcessed(evaluation) == evaluation.processed_at # Null

\* lines 216-221: load the evaluation row into the session; Not-Found when
\* absent; the stored verdict when processed_at is set
evaluate_load(p, cid) ==
    /\ pc[p] = "idle"
    /\ UNCHANGED <<auth, evaluate_requests>>
    /\ UNCHANGED <<ext, lock_depth>>
    /\ calls' = calls + 1
    /\ pool' = IF EvaluationIndex(cid) # 0
                  /\ ~AlreadyProcessed(challenge_evaluations[EvaluationIndex(cid)])
               THEN Checkout(pool, p)
               ELSE RunAndClose(pool, p)
    /\ LET i == EvaluationIndex(cid)
       IN IF i = 0
          THEN /\ ret' = [ret EXCEPT ![p] = Raise("evaluate", "NotFoundError", "Evaluation not found")]
               /\ UNCHANGED <<pc, arg, sess_eval, history>>
          ELSE IF AlreadyProcessed(challenge_evaluations[i])
          THEN /\ ret' = [ret EXCEPT ![p] = Return("evaluate", format_eval_result(challenge_evaluations[i]))]
               /\ history' = Append(history,
                      [result |-> format_eval_result(challenge_evaluations[i]),
                       row |-> challenge_evaluations[i], judge_calls |-> judge_calls])
               /\ UNCHANGED <<pc, arg, sess_eval>>
          ELSE /\ pc' = [pc EXCEPT ![p] = "acquire_lock"]
               /\ arg' = [arg EXCEPT ![p] = [op |-> "evaluate", ctx_id |-> cid]]
               /\ sess_eval' = [sess_eval EXCEPT ![p] = challenge_evaluations[i]]
               /\ ret' = [ret EXCEPT ![p] = NoRet]
               /\ UNCHANGED history
    /\ UNCHANGED <<tables, clock, lock, pending, user_appends, mark_count, outcome_writers,
                   judge_calls>>

\* Locker.acquire_lock, database/locking.py:22-34: pg_try_advisory_lock, and
\* the blocking pg_advisory_lock when the lock is taken.  The statement runs
\* in the transaction line 216 opened; a connection that holds the lock
\* takes it once more
acquire_lock(p) ==
    /\ pc[p] = "acquire_lock"
    /\ UNCHANGED <<auth, evaluate_requests>>
    /\ UNCHANGED <<ext, pool>>
    /\ lock \in {0, pool.held[p]}
    /\ lock' = pool.held[p]
    /\ lock_depth' = lock_depth + 1
    /\ pc' = [pc EXCEPT ![p] = "set_processed"]
    /\ UNCHANGED <<tables, clock, arg, sess_eval, pending, ret, ghosts>>

\* the select of line 75 overwrites the instance with the stored row
ReloadedEvaluation_fresh(p) ==
    challenge_evaluations[EvaluationIndexById(sess_eval[p].id)]

\* evaluation.py:75-76 select the row again in the session that loaded it at
\* line 216.  The ORM returns the instance the session already holds and does
\* not overwrite the attributes of an instance that is not expired; nothing
\* between line 216 and line 75 commits or expires, so the attributes are the
\* ones read at line 216.
ReloadedEvaluation(p) == sess_eval[p]

\* the context row is written back as it was read
CloseContext_skipped(ctx) == ctx

\* evaluation.py:84: evaluation.user_challenge_context.can_contribute = False
CloseContext(ctx) == [ctx EXCEPT !.can_contribute = FALSE]

\* _set_challenge_context_processed, evaluation.py:69-89.  The commit of
\* line 88 gives the connection back and expires the instances; line 89
\* reads evaluation.user_challenge_context, a SELECT on the connection the
\* pool hands out next
set_challenge_context_processed(p) ==
    /\ pc[p] = "set_processed"
    /\ UNCHANGED <<auth, evaluate_requests>>
    /\ UNCHANGED <<ext, lock_depth>>
    /\ pc' = [pc EXCEPT ![p] = "release_lock"]
    /\ IF ReloadedEvaluation(p).processed_at # Null
       THEN /\ pending' = [pending EXCEPT ![p].raised = TRUE]
            /\ UNCHANGED <<tables, clock, mark_count, pool>>
       ELSE LET i == EvaluationIndexById(ReloadedEvaluation(p).id)
                k == ContextIndexById(ReloadedEvaluation(p).user_challenge_context_id)
            IN /\ challenge_evaluations' = UpdateRow(challenge_evaluations, i,
                      [challenge_evaluations[i] EXCEPT !.processed_at = clock])
               /\ user_challenge_contexts' = UpdateRow(user_challenge_contexts, k,
                      CloseContext(user_challenge_contexts[k]))
               /\ clock' = clock + 1
               /\ mark_count' = mark_count + 1
               /\ pool' = Checkout(Release(pool, p), p)
               /\ UNCHANGED <<challenges, user_challenge_context_messages, tournaments,
                              user_tournament_enrollments, pending>>
    /\ UNCHANGED <<lock, arg, sess_eval, ret, calls, user_appends, outcome_writers,
                   judge_calls, history>>

\* pg_advisory_unlock on connection c: only the holder's call gives up one
\* level of the lock; on any other connection it returns false
AdvisoryUnlock(holder, depth, c) ==
    IF holder # c THEN [holder |-> holder, depth |-> depth]
    ELSE IF depth > 1 THEN [holder |-> holder, depth |-> depth - 1]
    ELSE [holder |-> 0, depth |-> 0]

\* locking.py:36-38 (finally: pg_advisory_unlock on the session's current
\* connection), then either the ValueError of line 79 leaves
\* evaluate_challenge_context and the session is closed, or line 226 is reached
release_lock(p) ==
    /\ pc[p] = "release_lock"
    /\ UNCHANGED <<auth, evaluate_requests>>
    /\ UNCHANGED ext
    /\ LET u == AdvisoryUnlock(lock, lock_depth, pool.held[p])
       IN lock' = u.holder /\ lock_depth' = u.depth
    /\ IF pending[p].raised
       THEN /\ EndEvaluate(p, Raise("evaluate", "ValueError", "Evaluation race condition"))
            /\ pending' = [pending EXCEPT ![p] = NoPending]
            /\ pool' = Release(pool, p)
       ELSE /\ pc' = [pc EXCEPT ![p] = "get_evaluation_result"]
            /\ UNCHANGED <<arg, ret, pending, pool>>
    /\ UNCHANGED <<tables, clock, sess_eval, ghosts>>

\* lines 226-248: refresh the context, read now, compute the verdict; an
\* exception of the computation is caught and becomes errored_at
compute_verdict(p) ==
    /\ pc[p] = "get_evaluation_result"
    /\ UNCHANGED <<auth, evaluate_requests>>
    /\ UNCHANGED <<ext, engine>>
    /\ pc' = [pc EXCEPT ![p] = "commit_result"]
    /\ \E reply \in JudgeReplies :
          LET cid == arg[p].ctx_id
              ch == challenges[user_challenge_contexts[ContextIndexById(cid)].challenge_id]
              v == get_evaluation_result(ch, cid, reply)
              asserted == ~v.raised /\ v.status \notin {SUCCEEDED, FAILED, ERRORED}
          IN /\ pending' = [pending EXCEPT ![p] =
                    [raised |-> v.raised \/ asserted,
                     outcome |-> IF v.raised \/ asserted THEN ERRORED ELSE v.status,
                     result_text |-> IF v.raised THEN v.message
                                     ELSE IF asserted THEN ""
                                     ELSE OrElse(v.reason, "Unknown reason"),
                     now |-> clock]]
             /\ judge_calls' = judge_calls + (IF v.judged THEN 1 ELSE 0)
    /\ clock' = clock + 1
    /\ UNCHANGED <<tables, lock, arg, sess_eval, ret, calls, user_appends, mark_count,
                   outcome_writers, history>>

\* lines 249-255: UPDATE the columns this session changed, commit, and format
\* the row as the database holds it after the commit
commit_result(p) ==
    /\ pc[p] = "commit_result"
    /\ UNCHANGED <<auth, evaluate_requests>>
    /\ UNCHANGED <<ext, lock_depth>>
    /\ pool' = Release(pool, p)
    /\ LET i == EvaluationIndexById(sess_eval[p].id)
           old == challenge_evaluations[i]
           new == [old EXCEPT
                     !.succeeded_at = IF pending[p].outcome = SUCCEEDED
                                      THEN pending[p].now ELSE @,
                     !.failed_at = IF pending[p].outcome = FAILED
                                   THEN pending[p].now ELSE @,
                     !.errored_at = IF pending[p].outcome = ERRORED
                                    THEN pending[p].now ELSE @,
                     !.result = None,
                     !.result_text = pending[p].result_text]
       IN /\ challenge_evaluations' = UpdateRow(challenge_evaluations, i, new)
          /\ EndEvaluate(p, [kind |-> "return", op |-> "evaluate",
                             value |-> format_eval_result(new),
                             caught |-> pending[p].raised,
                             message |-> pending[p].result_text])
          /\ history' = Append(history,
                 [result |-> format_eval_result(new), row |-> new,
                  judge_calls |-> judge_calls])
    /\ outcome_writers' = outcome_writers \cup {p}
    /\ pending' = [pending EXCEPT ![p] = NoPending]
    /\ UNCHANGED <<challenges, user_challenge_contexts, user_challenge_context_messages,
                   tournaments, user_tournament_enrollments, clock, lock, sess_eval,
                   calls, user_appends, mark_count, judge_calls>>

(***************************************************************************)
(* Stored rows as the messages of a conversation: shim.py:23-65 and        *)
(* db_api.py:199-214, 403, 418-456.                                        *)
(***************************************************************************)
\* Message, models/supplemental.py:34-40
Message(role, content, is_tool_call, tool_calls) ==
    [role |-> role, content |-> content, is_tool_call |-> is_tool_call,
     tool_calls |-> tool_calls]

\* content of the Message of a tool-calling entry: json.dumps of the
\* arguments of its calls (shim.py:35)
ArgumentsJson == "[arguments]"

\* map_chat_entries_to_messages, shim.py:23-65, on one stored entry (an
\* entry without tool calls has tool_calls None, the empty set here)
MapChatEntry(entry) ==
    CASE entry.content_type = "ChatMessageWithTools" ->
            IF entry.tool_calls = {}
            THEN Message(entry.role, entry.content, FALSE, {})
            ELSE Message(entry.role, ArgumentsJson, TRUE, entry.tool_calls)
      [] entry.content_type = "ChatResponseWithTools" ->
            IF entry.tool_calls = {}
            THEN Message(entry.role, entry.content, FALSE, {})
            ELSE Message(entry.role, "", FALSE, entry.tool_calls)
      [] OTHER -> Message(entry.role, entry.content, FALSE, {})

\* the rows are returned as the table holds them
InsertByCreatedAt_last(sorted, row) == Append(sorted, row)

\* one step of sorted(..., key=created_at): the row goes behind the rows
\* that are not later than it (the sort is stable)
InsertByCreatedAt(sorted, row) ==
    LET k == Cardinality({i \in DOMAIN sorted : sorted[i].created_at <= row.created_at})
    IN SubSeq(sorted, 1, k) \o <<row>> \o SubSeq(sorted, k + 1, Len(sorted))

RECURSIVE SortedByCreatedAt(_)
\* _instantiate_challenge_context_messages, db_api.py:403: sorted by created_at
SortedByCreatedAt(rows) ==
    IF rows = <<>> THEN <<>>
    ELSE InsertByCreatedAt(SortedByCreatedAt(SubSeq(rows, 1, Len(rows) - 1)), rows[Len(rows)])

\* lines 199-214: the messages the challenge itself defines
DefaultMessages(ch) ==
    (IF Truthy(ch.system_prompt) THEN <<Message("system", ch.system_prompt, FALSE, {})>>
     ELSE <<>>)
    \o (IF Truthy(ch.initial_llm_prompt)
        THEN <<Message("assistant", ch.initial_llm_prompt, FALSE, {})>> ELSE <<>>)

\* load_challenge_context_messages, db_api.py:418-456, reading the message
\* table: the messages the challenge defines, then the stored rows of the
\* context by created_at
load_challenge_context_messages(table, cid) ==
    LET rows == SortedByCreatedAt(
                    SelectSeq(table, LAMBDA r : r.user_challenge_context_id = cid))
        ctx == user_challenge_contexts[ContextIndexById(cid)]
    IN DefaultMessages(challenges[ctx.challenge_id])
           \o [k \in DOMAIN rows |-> MapChatEntry(rows[k])]

\* send_shim_request, shim.py:105-110, and send_shim_request_with_tools,
\* shim.py:135-140: the list starts with the new message and is extended
\* with the context
ShimMessages(message, role, context) ==
    <<Message(role, message, FALSE, {})>> \o context

(***************************************************************************)
(* add_message_to_challenge, db_api.py:94-146, and the rest of the         *)
(* POST /challenges/{id}/add_message route, server.py:330-367.             *)
(***************************************************************************)
\* the count leaves the role filter out
get_user_message_count_any_role(cid) ==
    Len(SelectSeq(user_challenge_context_messages,
                  LAMBDA r : r.user_challenge_context_id = cid))

\* get_user_message_count_in_challenge_context, db_api.py:459-474
get_user_message_count_in_challenge_context(cid) ==
    Len(SelectSeq(user_challenge_context_messages,
                  LAMBDA r : r.user_challenge_context_id = cid /\ r.role = "user"))

\* remaining_message_count of get_challenge_context_response, db_api.py:226-228
remaining_message_count(cid) ==
    MAX_USER_MESSAGE_COUNT_FOR_CHALLENGE - get_user_message_count_in_challenge_context(cid)

EndAddMessage(p, r) ==
    /\ ret' = [ret EXCEPT ![p] = r]
    /\ pc' = [pc EXCEPT ![p] = "idle"]
    /\ arg' = [arg EXCEPT ![p] = NoArg]

\* lines 102-116: the context must exist and be contributable
add_message_select(p, u, c, role) ==
    /\ pc[p] = "idle"
    /\ UNCHANGED <<auth, evaluate_requests>>
    /\ UNCHANGED <<ext, lock_depth>>
    /\ calls' = calls + 1
    /\ pool' = IF ContextIndex(u, c) # 0 /\ user_challenge_contexts[ContextIndex(u, c)].can_contribute
               THEN Checkout(pool, p)
               ELSE RunAndClose(pool, p)
    /\ LET i == ContextIndex(u, c)
       IN IF i = 0
          THEN /\ ret' = [ret EXCEPT ![p] =
                     Raise("add_message", "NotFoundError", "User challenge context not found")]
               /\ UNCHANGED <<pc, arg>>
          ELSE IF ~user_challenge_contexts[i].can_contribute
          THEN /\ ret' = [ret EXCEPT ![p] =
                     Raise("add_message", "ValueError", "User cannot contribute to this challenge context")]
               /\ UNCHANGED <<pc, arg>>
          ELSE /\ pc' = [pc EXCEPT ![p] = "add_message_count"]
               /\ arg' = [arg EXCEPT ![p] =
                     [op |-> "add_message", ctx_id |-> user_challenge_contexts[i].id,
                      challenge_id |-> c, role |-> role, message |-> "message",
                      log_before |-> user_challenge_context_messages]]
               /\ ret' = [ret EXCEPT ![p] = NoRet]
    /\ UNCHANGED <<tables, clock, lock, sess_eval, pending, user_appends,
                   mark_count, outcome_writers, judge_calls, history>>

\* the check lets a count equal to the cap through
CapReached_strict(count) == count > MAX_USER_MESSAGE_COUNT_FOR_CHALLENGE

\* line 123: >= MAX_USER_MESSAGE_COUNT_FOR_CHALLENGE
CapReached(count) == count >= MAX_USER_MESSAGE_COUNT_FOR_CHALLENGE

\* lines 119-124: the cap on stored user-role rows
add_message_count(p) ==
    /\ pc[p] = "add_message_count"
    /\ UNCHANGED <<auth, evaluate_requests>>
    /\ UNCHANGED <<ext, lock_depth>>
    /\ IF CapReached(get_user_message_count_in_challenge_context(arg[p].ctx_id))
       THEN /\ EndAddMessage(p, Raise("add_message", "ValueError",
                                      "Maximum message count reached for this challenge."))
            /\ pool' = Release(pool, p)
       ELSE /\ pc' = [pc EXCEPT ![p] = "add_message_commit"]
            /\ UNCHANGED <<arg, ret, pool>>
    /\ UNCHANGED <<tables, clock, lock, sess_eval, pending, ghosts>>

\* the row add_message_to_challenge stores, db_api.py:130-143
NewMessageRow(a) ==
    [user_challenge_context_id |-> a.ctx_id, role |-> a.role,
     content_type |-> "ChatMessageWithTools", tool_calls |-> {},
     created_at |-> clock, content |-> a.message]

\* lines 130-146: INSERT the row and commit; the route loads the context
\* messages (server.py:330-333), which raises ValueError (a 400, line 370)
\* on a row of unknown content type, and then either returns
\* (solicit_llm_response false) or goes on to the LLM with the loaded list
add_message_commit(p) ==
    /\ pc[p] = "add_message_commit"
    /\ UNCHANGED <<auth, evaluate_requests>>
    /\ UNCHANGED <<ext, lock_depth>>
    /\ user_challenge_context_messages' =
           Append(user_challenge_context_messages, NewMessageRow(arg[p]))
    /\ user_appends' = user_appends + (IF arg[p].role = "user" THEN 1 ELSE 0)
    /\ IF ReplayRaises(arg[p].ctx_id)
       THEN /\ EndAddMessage(p, Raise("add_message", "ValueError", "Unknown content type"))
            /\ pool' = RunAndClose(Release(pool, p), p)
       ELSE \/ /\ EndAddMessage(p, Return("add_message", arg[p].ctx_id))
               /\ pool' = RunAndClose(Release(pool, p), p)
            \/ /\ pc' = [pc EXCEPT ![p] = "solicit_llm_response"]
               /\ arg' = [arg EXCEPT ![p] =
                     [context |-> load_challenge_context_messages(
                                      user_challenge_context_messages', arg[p].ctx_id)]
                         @@ arg[p]]
               /\ pool' = Checkout(Release(pool, p), p)
               /\ UNCHANGED ret
    /\ UNCHANGED <<challenges, user_challenge_contexts, challenge_evaluations, tournaments,
                   user_tournament_enrollments, clock, lock, sess_eval, pending,
                   calls, mark_count, outcome_writers, judge_calls, history>>

\* what the chat shim hands back for storage: one plain response, or the
\* assistant message carrying tool calls followed by one tool message per
\* call (agent.py:108-130)
ChatEntryLists(ch, cid) ==
    IF ch.required_tools = {}
    THEN {<<[user_challenge_context_id |-> cid, role |-> "assistant",
             content_type |-> "ChatResponse", tool_calls |-> {},
             created_at |-> clock, content |-> "reply"]>>}
    ELSE {<<[user_challenge_context_id |-> cid, role |-> "assistant",
             content_type |-> "ChatResponseWithTools", tool_calls |-> {},
             created_at |-> clock, content |-> "reply"]>>}
         \cup
         {<<[user_challenge_context_id |-> cid, role |-> "assistant",
             content_type |-> "ChatMessageWithTools", tool_calls |-> {t},
             created_at |-> clock, content |-> ""],
            [user_challenge_context_id |-> cid, role |-> "tool",
             content_type |-> "ChatMessageWithTools", tool_calls |-> {},
             created_at |-> clock, content |-> "output"]>> :
          t \in ch.required_tools}

\* server.py:340-367: the LLM call, then add_chat_entries_to_challenge_no_checks
\* (db_api.py:149-177) and the response; a failing LLM call stores nothing
solicit_llm_response(p) ==
    /\ pc[p] = "solicit_llm_response"
    /\ UNCHANGED <<auth, evaluate_requests>>
    /\ UNCHANGED <<users, sessions, ensure_user_cache, lock_depth>>
    /\ pool' = Release(pool, p)
    /\ LET request == [llm_messages |->
                           ShimMessages(arg[p].message, arg[p].role, arg[p].context),
                       new_message |-> Message(arg[p].role, arg[p].message, FALSE, {}),
                       log_before |-> arg[p].log_before, ctx_id |-> arg[p].ctx_id]
       IN \/ /\ EndAddMessage(p, request @@
                      Raise("add_message", "LLMAPIError", "LLM API error"))
             /\ UNCHANGED <<user_challenge_context_messages, executed_tools>>
          \/ \E entries \in ChatEntryLists(challenges[arg[p].challenge_id], arg[p].ctx_id) :
                /\ user_challenge_context_messages' = user_challenge_context_messages \o entries
                /\ executed_tools' = executed_tools + Cardinality(entries[1].tool_calls)
                /\ EndAddMessage(p, request @@ Return("add_message", arg[p].ctx_id))
    /\ UNCHANGED <<challenges, user_challenge_contexts, challenge_evaluations, tournaments,
                   user_tournament_enrollments, clock, lock, sess_eval, pending, ghosts>>

(***************************************************************************)
(* join_tournament, db_api.py:278-317.                                     *)
(***************************************************************************)
\* the lookup filters on the tournament only
EnrollmentIndex_tournament_only(u, t) ==
    FirstIndex({i \in DOMAIN user_tournament_enrollments :
                    user_tournament_enrollments[i].tournament_id = t})

\* select(UserTournamentEnrollments).where(user_id == u, tournament_id == t).first()
EnrollmentIndex(u, t) ==
    FirstIndex({i \in DOMAIN user_tournament_enrollments :
                    /\ user_tournament_enrollments[i].user_id = u
                    /\ user_tournament_enrollments[i].tournament_id = t})

\* lines 286-304: existence, the two date checks, the existing enrollment
join_tournament_select(p, u, t) ==
    /\ pc[p] = "idle"
    /\ UNCHANGED <<auth, evaluate_requests>>
    /\ UNCHANGED <<ext, engine>>
    /\ calls' = calls + 1
    /\ IF t \notin DOMAIN tournaments
       THEN /\ ret' = [ret EXCEPT ![p] = Raise("join", "NotFoundError", "Tournament not found")]
            /\ UNCHANGED <<pc, arg>>
       ELSE IF tournaments[t].start_date > clock
       THEN /\ ret' = [ret EXCEPT ![p] = Raise("join", "ValueError", "Tournament has not started yet")]
            /\ UNCHANGED <<pc, arg>>
       ELSE IF tournaments[t].end_date < clock
       THEN /\ ret' = [ret EXCEPT ![p] = Raise("join", "ValueError", "Tournament has already ended")]
            /\ UNCHANGED <<pc, arg>>
       ELSE IF EnrollmentIndex(u, t) # 0
       THEN /\ ret' = [ret EXCEPT ![p] =
                  Return("join", user_tournament_enrollments[EnrollmentIndex(u, t)].id)]
            /\ UNCHANGED <<pc, arg>>
       ELSE /\ pc' = [pc EXCEPT ![p] = "join_commit"]
            /\ arg' = [arg EXCEPT ![p] = [op |-> "join", user_id |-> u, tournament_id |-> t]]
            /\ ret' = [ret EXCEPT ![p] = NoRet]
    /\ UNCHANGED <<tables, clock, lock, sess_eval, pending, user_appends,
                   mark_count, outcome_writers, judge_calls, history>>

\* lines 306-317: INSERT the enrollment and commit; uq_user_tournament
\* (models.py:67) rejects a second row of the pair
join_tournament_commit(p) ==
    /\ pc[p] = "join_commit"
    /\ UNCHANGED <<auth, evaluate_requests>>
    /\ UNCHANGED <<ext, engine>>
    /\ pc' = [pc EXCEPT ![p] = "idle"]
    /\ arg' = [arg EXCEPT ![p] = NoArg]
    /\ IF EnrollmentIndex(arg[p].user_id, arg[p].tournament_id) # 0
       THEN /\ ret' = [ret EXCEPT ![p] = Raise("join", "IntegrityError", "uq_user_tournament")]
            /\ UNCHANGED user_tournament_enrollments
       ELSE LET row == [id |-> Len(user_tournament_enrollments) + 1,
                        user_id |-> arg[p].user_id,
                        tournament_id |-> arg[p].tournament_id, enrolled_at |-> clock]
            IN /\ user_tournament_enrollments' = Append(user_tournament_enrollments, row)
               /\ ret' = [ret EXCEPT ![p] = Return("join", row.id)]
    /\ UNCHANGED <<challenges, user_challenge_contexts, challenge_evaluations,
                   user_challenge_context_messages, tournaments, clock, lock, sess_eval,
                   pending, ghosts>>

\* the wall clock advances between statements
Tick ==
    /\ clock < MaxClock
    /\ UNCHANGED <<auth, evaluate_requests>>
    /\ UNCHANGED <<ext, engine>>
    /\ clock' = clock + 1
    /\ UNCHANGED <<tables, lock, locals, ghosts>>

(***************************************************************************)
(* list_tournaments, db_api.py:320-365.                                    *)
(***************************************************************************)
\* SelectionFilter, models/supplemental.py:54-59
PAST_ONLY == "PAST"
ACTIVE_ONLY == "ACTIVE"
FUTURE_ONLY == "FUTURE"
PAST_AND_ACTIVE == "PAST_AND_ACTIVE"
ACTIVE_AND_FUTURE == "ACTIVE_AND_FUTURE"
SelectionFilter == {PAST_ONLY, ACTIVE_ONLY, FUTURE_ONLY, PAST_AND_ACTIVE, ACTIVE_AND_FUTURE}

\* the names db_api.py binds from sqlmodel and sqlalchemy (lines 6-7)
SqlImports == {"Session", "and_", "select", "func"}

\* the three conditions the where clauses are built from
EndedBefore(t, now) == t.end_date < now
RunningAt(t, now) == t.start_date <= now /\ t.end_date >= now
StartsAfter(t, now) == t.start_date > now

\* lines 334-356: the where clause of a filter, as a predicate on a row
MatchesFilter(t, selection_filter, now) ==
    CASE selection_filter = PAST_ONLY -> EndedBefore(t, now)
      [] selection_filter = ACTIVE_ONLY -> RunningAt(t, now)
      [] selection_filter = FUTURE_ONLY -> StartsAfter(t, now)
      [] selection_filter = PAST_AND_ACTIVE -> EndedBefore(t, now) \/ RunningAt(t, now)
      [] selection_filter = ACTIVE_AND_FUTURE -> RunningAt(t, now) \/ StartsAfter(t, now)
      [] OTHER -> TRUE

\* the branches of lines 343-356 evaluate the name or_
UsesOr(selection_filter) == selection_filter \in {PAST_AND_ACTIVE, ACTIVE_AND_FUTURE}

\* statement.offset(page_index * count).limit(count), line 359
Page(ids, page_index, count) ==
    SubSeq(ids, page_index * count + 1,
           IF (page_index + 1) * count < Len(ids) THEN (page_index + 1) * count ELSE Len(ids))

\* the ids of the matching rows, in id order
MatchingIds(selection_filter, now) ==
    SelectSeq([i \in DOMAIN tournaments |-> i],
              LAMBDA i : MatchesFilter(tournaments[i], selection_filter, now))

\* list_tournaments: one SELECT, or the NameError of an unbound name
list_tournaments(p, selection_filter, page_index, count) ==
    /\ pc[p] = "idle"
    /\ UNCHANGED <<auth, evaluate_requests>>
    /\ calls' = calls + 1
    /\ ret' = [ret EXCEPT ![p] =
          IF UsesOr(selection_filter) /\ "or_" \notin SqlImports
          THEN [kind |-> "raise", op |-> "list", exc |-> "NameError",
                message |-> "name 'or_' is not defined",
                selection_filter |-> selection_filter, now |-> clock,
                page_index |-> page_index, count |-> count]
          ELSE [kind |-> "return", op |-> "list",
                value |-> Page(MatchingIds(selection_filter, clock), page_index, count),
                selection_filter |-> selection_filter, now |-> clock,
                page_index |-> page_index, count |-> count]]
    /\ UNCHANGED <<tables, clock, lock, pc, arg, sess_eval, pending, user_appends,
                   mark_count, outcome_writers, judge_calls, history, ext, engine>>

(***************************************************************************)
(* ensure_user_exists, db_api.py:33-45, under functools.cache.  The cache  *)
(* key is the pair (session, user_sub); a Session hashes by identity, so   *)
(* an entry is found again only by a call made with the same Session.      *)
(***************************************************************************)
Subs == {"sub-a", "sub-b"}

\* the lookup ignores the subject id
UserIndex_any(user_sub) == FirstIndex(DOMAIN users)

\* select(Users).where(Users.sub_id == user_sub).first()
UserIndex(user_sub) ==
    FirstIndex({i \in DOMAIN users : users[i].sub_id = user_sub})

CacheEntries(session_id, user_sub) ==
    {e \in ensure_user_cache : e.session = session_id /\ e.sub = user_sub}

EnsureReturn(user_sub, id) ==
    [kind |-> "return", op |-> "ensure_user", value |-> id, sub |-> user_sub]
EnsureRaise(user_sub, e) ==
    [kind |-> "raise", op |-> "ensure_user", exc |-> e, message |-> "", sub |-> user_sub]

\* get_db, database/connection.py:43-52: the next request of the worker
\* runs in a new Session; entries cached for the closed one stay in the cache
get_db(p) ==
    /\ pc[p] = "idle"
    /\ UNCHANGED <<auth, evaluate_requests>>
    /\ UNCHANGED engine
    /\ ret[p].kind # "none"
    /\ sessions[p].id + NumProcs <= NumProcs * MaxSeqCalls
    /\ sessions' = [sessions EXCEPT ![p] = [id |-> sessions[p].id + NumProcs, failed |-> FALSE]]
    /\ UNCHANGED <<tables, clock, lock, locals, ghosts, users, ensure_user_cache,
                   executed_tools>>

\* the cache lookup, then line 39: a cached row is returned without a
\* query; a Session whose last commit failed may refuse the next statement
ensure_user_select(p, user_sub) ==
    /\ pc[p] = "idle"
    /\ UNCHANGED <<auth, evaluate_requests>>
    /\ UNCHANGED engine
    /\ calls' = calls + 1
    /\ LET hit == CacheEntries(sessions[p].id, user_sub)
           i == UserIndex(user_sub)
       IN IF hit # {}
          THEN /\ ret' = [ret EXCEPT ![p] = EnsureReturn(user_sub, (CHOOSE e \in hit : TRUE).user_id)]
               /\ UNCHANGED <<pc, arg, ensure_user_cache>>
          ELSE IF sessions[p].failed
          THEN /\ ret' = [ret EXCEPT ![p] = EnsureRaise(user_sub, "PendingRollbackError")]
               /\ UNCHANGED <<pc, arg, ensure_user_cache>>
          ELSE IF i # 0
          THEN /\ ret' = [ret EXCEPT ![p] = EnsureReturn(user_sub, users[i].id)]
               /\ ensure_user_cache' = ensure_user_cache \cup
                     {[session |-> sessions[p].id, sub |-> user_sub, user_id |-> users[i].id]}
               /\ UNCHANGED <<pc, arg>>
          ELSE /\ pc' = [pc EXCEPT ![p] = "ensure_user_commit"]
               /\ arg' = [arg EXCEPT ![p] = [op |-> "ensure_user", sub |-> user_sub]]
               /\ ret' = [ret EXCEPT ![p] = NoRet]
               /\ UNCHANGED ensure_user_cache
    /\ UNCHANGED <<tables, clock, lock, sess_eval, pending, user_appends, mark_count,
                   outcome_writers, judge_calls, history, users, sessions, executed_tools>>

\* lines 41-45: INSERT, commit, refresh.  users_sub_id_key (models.py:28)
\* rejects a second row of the subject id; whether the Session is usable
\* after the failed commit is left open
ensure_user_commit(p) ==
    /\ pc[p] = "ensure_user_commit"
    /\ UNCHANGED <<auth, evaluate_requests>>
    /\ UNCHANGED engine
    /\ pc' = [pc EXCEPT ![p] = "idle"]
    /\ arg' = [arg EXCEPT ![p] = NoArg]
    /\ IF UserIndex(arg[p].sub) # 0
       THEN /\ ret' = [ret EXCEPT ![p] = EnsureRaise(arg[p].sub, "IntegrityError")]
            /\ \E f \in BOOLEAN : sessions' = [sessions EXCEPT ![p].failed = f]
            /\ UNCHANGED <<users, ensure_user_cache>>
       ELSE LET row == [id |-> Len(users) + 1, sub_id |-> arg[p].sub]
            IN /\ users' = Append(users, row)
               /\ ret' = [ret EXCEPT ![p] = EnsureReturn(arg[p].sub, row.id)]
               /\ ensure_user_cache' = ensure_user_cache \cup
                     {[session |-> sessions[p].id, sub |-> arg[p].sub, user_id |-> row.id]}
               /\ UNCHANGED sessions
    /\ UNCHANGED <<tables, clock, lock, sess_eval, pending, ghosts, executed_tools>>

(***************************************************************************)
(* get_challenge_context_response, db_api.py:180-230.                      *)
(***************************************************************************)
\* lines 187-230: one read of the context, its challenge, its rows and its
\* evaluation
get_challenge_context_response(p, u, c) ==
    /\ pc[p] = "idle"
    /\ UNCHANGED <<auth, evaluate_requests>>
    /\ calls' = calls + 1
    /\ LET i == ContextIndex(u, c)
       IN IF i = 0
          THEN ret' = [ret EXCEPT ![p] =
                  Raise("context", "NotFoundError", "User challenge context not found")]
          ELSE LET cid == user_challenge_contexts[i].id
                   rows == SortedByCreatedAt(MessagesOf(cid))
               IN ret' = [ret EXCEPT ![p] = Return("context",
                      [user_challenge_context |-> cid,
                       messages |-> DefaultMessages(challenges[c])
                                       \o [k \in DOMAIN rows |-> MapChatEntry(rows[k])],
                       remaining_message_count |-> remaining_message_count(cid),
                       eval_result |->
                           IF EvaluationIndex(cid) # 0
                           THEN format_eval_result(challenge_evaluations[EvaluationIndex(cid)])
                           ELSE None])]
    /\ UNCHANGED <<tables, clock, lock, pc, arg, sess_eval, pending, user_appends,
                   mark_count, outcome_writers, judge_calls, history, ext, engine>>

(***************************************************************************)
(* LLMAgent.chat_with_tools, llm/agent.py:55-130, and the red-team runs of *)
(* llm/red_team_agent.py: RedTeamAgent.red_team_session (131-278) and      *)
(* run_automated_red_team (281-390).  A run is the handler of a process;   *)
(* its locals (messages, attempts, the loop index) live in arg.            *)
(***************************************************************************)
RedTeamTools == {"delete_all", "lookup"}    \* the names of the tool registry

\* what the model answers to one request: the gateway call fails, or the
\* first choice carries the tool calls of a set of names
ModelReplies ==
    {[kind |-> "error", tool_calls |-> {}]}
        \cup {[kind |-> "response", tool_calls |-> called] : called \in SUBSET RedTeamTools}

\* the argument is left out and the parameter takes its default, True
red_team_auto_execute_tools_default == TRUE

\* auto_execute_tools=False, red_team_agent.py:203 and 336
red_team_auto_execute_tools == FALSE

\* chat_with_tools, agent.py:104-130, for a request the gateway answered:
\* the list it returns and the number of execute_tool calls it made
chat_with_tools(reply, auto_execute_tools) ==
    IF reply.tool_calls = {} \/ ~auto_execute_tools
    THEN [type |-> "list", executed |-> 0,
          items |-> <<[type |-> "ChatResponseWithTools", tool_calls |-> reply.tool_calls]>>]
    ELSE [type |-> "list", executed |-> Cardinality(reply.tool_calls),
          items |-> <<[type |-> "ChatMessageWithTools", tool_calls |-> reply.tool_calls],
                      [type |-> "ChatMessageWithTools", tool_calls |-> {}]>>]

\* response.choices, red_team_agent.py:215 and 346: only a
\* ChatResponseWithTools has the attribute
HasChoices(response) == response.type = "ChatResponseWithTools"

RedTeamResult(total_attempts, successful_attack, attempts) ==
    [total_attempts |-> total_attempts, successful_attack |-> successful_attack,
     attempts |-> attempts]

EndRedTeam(p, r) ==
    /\ ret' = [ret EXCEPT ![p] = r]
    /\ pc' = [pc EXCEPT ![p] = "idle"]
    /\ arg' = [arg EXCEPT ![p] = NoArg]

\* the result of a run that ends without a hit: lines 267-278 (len(attempts))
\* and 381-390 (len(test_prompts))
ResistedResult(a) ==
    [kind |-> "return", op |-> "red_team", mode |-> a.mode, replies |-> a.replies,
     malicious |-> a.malicious, sent |-> a.sent,
     value |-> RedTeamResult(IF a.mode = "automated" THEN a.n ELSE Len(a.attempts),
                             FALSE, a.attempts)]

\* the start of a run: n is len(test_prompts), or max_attempts of a session
red_team_start(p, mode, n, malicious) ==
    /\ pc[p] = "idle"
    /\ UNCHANGED <<auth, evaluate_requests>>
    /\ calls' = calls + 1
    /\ pc' = [pc EXCEPT ![p] = "red_team_attempt"]
    /\ arg' = [arg EXCEPT ![p] =
          [op |-> "red_team", mode |-> mode, n |-> n, malicious |-> malicious, i |-> 1,
           sent |-> 0, replies |-> <<>>, attempts |-> <<>>]]
    /\ ret' = [ret EXCEPT ![p] = NoRet]
    /\ UNCHANGED <<tables, clock, lock, sess_eval, pending, user_appends, mark_count,
                   outcome_writers, judge_calls, history, ext, engine>>

\* the loop has run out of prompts (or of attempts)
red_team_exhausted(p) ==
    /\ pc[p] = "red_team_attempt"
    /\ UNCHANGED <<auth, evaluate_requests>>
    /\ arg[p].i > arg[p].n
    /\ EndRedTeam(p, ResistedResult(arg[p]))
    /\ UNCHANGED <<tables, clock, lock, sess_eval, pending, ghosts, ext, engine>>

\* lines 177-184 of a session: the operator types quit, or nothing
red_team_operator(p) ==
    /\ pc[p] = "red_team_attempt"
    /\ UNCHANGED <<auth, evaluate_requests>>
    /\ arg[p].i <= arg[p].n
    /\ arg[p].mode = "session"
    /\ \/ EndRedTeam(p, ResistedResult(arg[p]))
       \/ /\ arg' = [arg EXCEPT ![p].i = @ + 1]
          /\ UNCHANGED <<pc, ret>>
    /\ UNCHANGED <<tables, clock, lock, sess_eval, pending, ghosts, ext, engine>>

\* one attempt, lines 186-262 and 321-378: the prompt is sent; an exception
\* of chat_with_tools is logged and the loop goes on; otherwise the value
\* chat_with_tools returned is inspected through .choices
red_team_attempt(p) ==
    /\ pc[p] = "red_team_attempt"
    /\ UNCHANGED <<auth, evaluate_requests>>
    /\ arg[p].i <= arg[p].n
    /\ \E reply \in ModelReplies :
          LET a == [arg[p] EXCEPT !.sent = @ + 1, !.replies = Append(@, reply)]
              response == chat_with_tools(reply, red_team_auto_execute_tools)
              hit == reply.tool_calls \cap a.malicious
              attempt == [attempt_number |-> a.i, tools_requested |-> reply.tool_calls,
                          malicious_tool_called |-> hit # {}]
              b == [a EXCEPT !.attempts = Append(@, attempt)]
          IN IF reply.kind = "error"
             THEN /\ arg' = [arg EXCEPT ![p] = [a EXCEPT !.i = @ + 1]]
                  /\ UNCHANGED <<pc, ret, executed_tools>>
             ELSE /\ executed_tools' = executed_tools + response.executed
                  /\ IF ~HasChoices(response)
                     THEN EndRedTeam(p, [kind |-> "raise", op |-> "red_team",
                                         exc |-> "AttributeError",
                                         message |-> "'list' object has no attribute 'choices'",
                                         mode |-> a.mode, replies |-> a.replies,
                                         malicious |-> a.malicious, sent |-> a.sent])
                     ELSE IF hit # {}
                     THEN EndRedTeam(p, [kind |-> "return", op |-> "red_team",
                                         mode |-> a.mode, replies |-> a.replies,
                                         malicious |-> a.malicious, sent |-> a.sent,
                                         value |-> RedTeamResult(a.i, TRUE, b.attempts)])
                     ELSE /\ arg' = [arg EXCEPT ![p] = [b EXCEPT !.i = @ + 1]]
                          /\ UNCHANGED <<pc, ret>>
    /\ UNCHANGED <<tables, clock, lock, sess_eval, pending, ghosts, users, sessions,
                   ensure_user_cache, engine>>

(***************************************************************************)
(* ToolRegistry.execute_tool, llm/tools.py:89-144, with _execute_mock_tool *)
(* (146-162), _execute_real_tool (164-193) and _import_handler (195-222).  *)
(***************************************************************************)
\* the registered tools: a mock tool and function tools whose handler is
\* not set, cannot be imported, raises, or returns
ToolRegistry ==
    [echo     |-> [tool_type |-> "mock", handler |-> None],
     bare     |-> [tool_type |-> "function", handler |-> None],
     missing  |-> [tool_type |-> "function", handler |-> "backend.tools.missing.run"],
     failing  |-> [tool_type |-> "function", handler |-> "backend.tools.failing.run"],
     adder    |-> [tool_type |-> "function", handler |-> "backend.tools.adder.run"]]

ToolNames == DOMAIN ToolRegistry \cup {"unregistered"}

\* importlib.import_module / getattr on a handler path, and what the
\* imported coroutine does when it is awaited
HandlerModules ==
    [x \in {"backend.tools.missing.run", "backend.tools.failing.run", "backend.tools.adder.run"} |->
        CASE x = "backend.tools.missing.run" -> "ModuleNotFoundError"
          [] x = "backend.tools.failing.run" -> "RuntimeError"
          [] OTHER -> "ok"]

\* the arguments of a call: a dict, or a string that is empty, a JSON
\* object, a JSON array, malformed JSON, brackets nested deeper than the
\* interpreter's recursion limit, or an integer literal of more digits than
\* int() converts
ToolArguments ==
    {"dict", "str:empty", "str:object", "str:array", "str:malformed", "str:deep", "str:digits"}

\* json.loads(arguments) if arguments else {}: the type of the value, or
\* the exception raised
JsonLoads(arguments) ==
    CASE arguments = "str:empty"     -> [kind |-> "value", type |-> "dict"]
      [] arguments = "str:object"    -> [kind |-> "value", type |-> "dict"]
      [] arguments = "str:array"     -> [kind |-> "value", type |-> "list"]
      [] arguments = "str:malformed" -> [kind |-> "raise", exc |-> "JSONDecodeError"]
      [] arguments = "str:deep"      -> [kind |-> "raise", exc |-> "RecursionError"]
      [] arguments = "str:digits"    -> [kind |-> "raise", exc |-> "ValueError"]

\* except json.JSONDecodeError, tools.py:120
ParseErrorsCaught == {"JSONDecodeError"}

ToolExecutionResult(error, output) == [error |-> error, output |-> output]

\* _execute_real_tool: the string the handler's result becomes, or the
\* exception raised on the way
ExecuteRealTool(tool_def, arguments_type) ==
    IF tool_def.handler = None THEN [kind |-> "raise", exc |-> "ValueError"]
    ELSE IF HandlerModules[tool_def.handler] = "ModuleNotFoundError"
    THEN [kind |-> "raise", exc |-> "ImportError"]
    ELSE IF arguments_type # "dict" THEN [kind |-> "raise", exc |-> "TypeError"]
    ELSE IF HandlerModules[tool_def.handler] # "ok"
    THEN [kind |-> "raise", exc |-> HandlerModules[tool_def.handler]]
    ELSE [kind |-> "value", output |-> "result"]

\* execute_tool as a function of its arguments
ExecuteTool(tool_name, arguments, mock_mode) ==
    IF tool_name \notin DOMAIN ToolRegistry
    THEN Return("execute_tool", ToolExecutionResult("Tool not found in registry", None))
    ELSE LET tool_def == ToolRegistry[tool_name]
             parsed == IF arguments = "dict" THEN [kind |-> "value", type |-> "dict"]
                       ELSE JsonLoads(arguments)
         IN IF parsed.kind = "raise"
            THEN IF parsed.exc \in ParseErrorsCaught
                 THEN Return("execute_tool", ToolExecutionResult("Invalid JSON arguments", None))
                 ELSE Raise("execute_tool", parsed.exc, "json.loads")
            ELSE IF mock_mode \/ tool_def.tool_type = "mock"
            THEN Return("execute_tool", ToolExecutionResult(None, "mock_response"))
            ELSE LET ran == ExecuteRealTool(tool_def, parsed.type)
                 IN IF ran.kind = "raise"
                    THEN Return("execute_tool", ToolExecutionResult("Tool execution failed", None))
                    ELSE Return("execute_tool", ToolExecutionResult(None, ran.output))

\* one call of execute_tool; the answer is kept with the arguments
execute_tool(p, tool_name, arguments, mock_mode) ==
    /\ pc[p] = "idle"
    /\ UNCHANGED <<auth, evaluate_requests>>
    /\ calls' = calls + 1
    /\ ret' = [ret EXCEPT ![p] =
          [tool_name |-> tool_name, arguments |-> arguments, mock_mode |-> mock_mode]
              @@ ExecuteTool(tool_name, arguments, mock_mode)]
    /\ executed_tools' = executed_tools + 1
    /\ UNCHANGED <<tables, clock, lock, pc, arg, sess_eval, pending, user_appends,
                   mark_count, outcome_writers, judge_calls, history, users, sessions,
                   ensure_user_cache, engine>>

(***************************************************************************)
(* LLMClient.chat_completion, llm/client.py:86-147, over the catalogue of  *)
(* llm/config.py and the provider keys of llm/settings.py.                 *)
(***************************************************************************)
\* LLMConfig._models: model id -> provider
ModelCatalog == [gpt |-> "openai", claude |-> "anthropic"]
ModelIds == DOMAIN ModelCatalog \cup {"uncatalogued"}
Providers == {"openai", "anthropic"}

\* what litellm.acompletion does with a request: it answers, it answers
\* with data _convert_response cannot validate, or it raises
GatewayOutcomes == {"ok", "invalid", "RateLimitError", "AuthenticationError", "Timeout"}

\* the body of the try block, lines 99-141: how it ends and how many calls
\* to the gateway it made
ChatCompletionBody(model, keys, gateway) ==
    IF model \notin DOMAIN ModelCatalog
    THEN [kind |-> "raise", exc |-> "LLMValidationError", gateway_calls |-> 0]
    ELSE IF ModelCatalog[model] \notin keys
    THEN [kind |-> "raise", exc |-> "LLMAPIError", gateway_calls |-> 0]
    ELSE IF gateway = "ok" THEN [kind |-> "return", exc |-> None, gateway_calls |-> 1]
    ELSE IF gateway = "invalid"
    THEN [kind |-> "raise", exc |-> "ValidationError", gateway_calls |-> 1]
    ELSE [kind |-> "raise", exc |-> gateway, gateway_calls |-> 1]

\* the except clauses, lines 142-147
ChatCompletion(model, keys, gateway) ==
    LET body == ChatCompletionBody(model, keys, gateway)
    IN IF body.kind = "return"
       THEN [kind |-> "return", op |-> "chat_completion", value |-> "ChatResponse",
             original_error |-> None, gateway_calls |-> body.gateway_calls]
       ELSE IF body.exc = "ValidationError"
       THEN [kind |-> "raise", op |-> "chat_completion", exc |-> "LLMValidationError",
             original_error |-> None, gateway_calls |-> body.gateway_calls]
       ELSE [kind |-> "raise", op |-> "chat_completion", exc |-> "LLMAPIError",
             original_error |-> body.exc, gateway_calls |-> body.gateway_calls]

\* one call of chat_completion; the answer is kept with its inputs
chat_completion(p, model, keys, gateway) ==
    /\ pc[p] = "idle"
    /\ UNCHANGED <<auth, evaluate_requests>>
    /\ calls' = calls + 1
    /\ ret' = [ret EXCEPT ![p] =
          [model |-> model, keys |-> keys, gateway |-> gateway]
              @@ ChatCompletion(model, keys, gateway)]
    /\ UNCHANGED <<tables, clock, lock, pc, arg, sess_eval, pending, user_appends,
                   mark_count, outcome_writers, judge_calls, history, ext, engine>>

(***************************************************************************)
(* SupabaseAuth, server.py:85-153.  verify_token is a plain function       *)
(* called from the coroutine get_current_user (server.py:161-178): it runs *)
(* to its end without yielding to another request.                         *)
(***************************************************************************)
Tokens == {"token-a", "token-b"}
ttl == 10
\* the readings of time.time() the requests see
Times == {0, 9, 10, 11, 20}

\* supabase.auth.get_user(token): a user, a response without a user, or an
\* exception
ProviderReplies == {"uid-1", "uid-2", "no user", "raises"}

NoEntry == [user_data |-> None, expiry |-> 0]
\* the dict of the development mode, lines 109-116
DevUser == "dev-user-id"

\* the entry is served up to and at its expiry
CacheFresh_inclusive(now, expiry) == now <= expiry

\* line 120: if time.time() < expiry
CacheFresh(now, expiry) == now < expiry

\* the instants that pass between requests
Sleep ==
    /\ \E t \in Times : t > wall /\ wall' = t
    /\ UNCHANGED <<tables, clock, lock, locals, ghosts, ext, engine, auth_handler,
                   provider_calls, evaluate_requests>>

\* verify_token(token), lines 105-153
verify_token(p, token) ==
    /\ pc[p] = "idle"
    /\ calls' = calls + 1
    /\ LET entry == auth_handler.cache[token]
           cached == entry # NoEntry
       IN IF auth_handler.supabase = None
          THEN /\ ret' = [ret EXCEPT ![p] =
                     [token |-> token, now |-> wall] @@ Return("verify_token", DevUser)]
               /\ UNCHANGED <<auth_handler, provider_calls>>
          ELSE IF cached /\ CacheFresh(wall, entry.expiry)
          THEN /\ ret' = [ret EXCEPT ![p] =
                     [token |-> token, now |-> wall] @@ Return("verify_token", entry.user_data)]
               /\ UNCHANGED <<auth_handler, provider_calls>>
          ELSE \E reply \in ProviderReplies :
                 IF reply \in {"no user", "raises"}
                 THEN /\ auth_handler' = [auth_handler EXCEPT !.cache[token] = NoEntry]
                      /\ provider_calls' = Append(provider_calls,
                             [token |-> token, time |-> wall, ok |-> FALSE])
                      /\ ret' = [ret EXCEPT ![p] =
                             [token |-> token, now |-> wall]
                                 @@ Raise("verify_token", "HTTPException",
                                          "Could not validate credentials")]
                 ELSE /\ auth_handler' = [auth_handler EXCEPT !.cache[token] =
                             [user_data |-> reply, expiry |-> wall + ttl]]
                      /\ provider_calls' = Append(provider_calls,
                             [token |-> token, time |-> wall, ok |-> TRUE])
                      /\ ret' = [ret EXCEPT ![p] =
                             [token |-> token, now |-> wall] @@ Return("verify_token", reply)]
    /\ UNCHANGED <<tables, clock, lock, pc, arg, sess_eval, pending, user_appends,
                   mark_count, outcome_writers, judge_calls, history, ext, engine, wall,
                   evaluate_requests>>

(***************************************************************************)
(* GET /challenges/{challenge_id}/evaluate, server.py:374-389.             *)
(***************************************************************************)
\* the route awaits the coroutine it creates
evaluate_route_awaits_awaited == TRUE

\* lines 385-387: `return evaluation.evaluate_challenge_context(...)`, the
\* call of an `async def` without `await`.  The route returns the coroutine
\* object; nothing runs its body
evaluate_route_awaits == FALSE

\* The route resolves the caller (line 381, the Users row exists), creates
\* the coroutine with challenge_context_id = challenge_id and returns it.
\* The response of the route is declared as EvalResult (line 374): the
\* framework validates the returned object against it, the coroutine object
\* fails the validation and the request ends in a server error.  No
\* statement of evaluate_challenge_context is executed, so NotFoundError is
\* never raised and the handler of line 388 never runs.  An awaited
\* coroutine would run lines 216-224 of evaluation.py on the evaluation row
\* whose user_challenge_context_id is the challenge id.
evaluate_route(p, u, challenge_id) ==
    /\ pc[p] = "idle"
    /\ UNCHANGED auth
    /\ UNCHANGED <<ext, lock_depth>>
    /\ calls' = calls + 1
    /\ pool' = RunAndClose(pool, p)
    /\ evaluate_requests' = evaluate_requests \cup
           {[user_id |-> u, challenge_id |-> challenge_id]}
    /\ LET i == EvaluationIndex(challenge_id)
           request == [user_id |-> u, challenge_id |-> challenge_id]
       IN IF ~evaluate_route_awaits
          THEN /\ ret' = [ret EXCEPT ![p] = request @@
                        Raise("evaluate_route", "ResponseValidationError", "coroutine")]
               /\ UNCHANGED <<tables, clock, mark_count>>
          ELSE IF i = 0
          THEN /\ ret' = [ret EXCEPT ![p] = request @@
                        Raise("evaluate_route", "HTTPException 404", "Challenge not found")]
               /\ UNCHANGED <<tables, clock, mark_count>>
          ELSE IF AlreadyProcessed(challenge_evaluations[i])
          THEN /\ ret' = [ret EXCEPT ![p] = request @@
                        Return("evaluate_route", format_eval_result(challenge_evaluations[i]))]
               /\ UNCHANGED <<tables, clock, mark_count>>
          ELSE LET k == ContextIndexById(challenge_evaluations[i].user_challenge_context_id)
               IN /\ challenge_evaluations' = UpdateRow(challenge_evaluations, i,
                         [challenge_evaluations[i] EXCEPT !.processed_at = clock])
                  /\ user_challenge_contexts' = UpdateRow(user_challenge_contexts, k,
                         CloseContext(user_challenge_contexts[k]))
                  /\ clock' = clock + 1
                  /\ mark_count' = mark_count + 1
                  /\ ret' = [ret EXCEPT ![p] = request @@
                         Return("evaluate_route", format_eval_result(challenge_evaluations'[i]))]
                  /\ UNCHANGED <<challenges, user_challenge_context_messages, tournaments,
                                 user_tournament_enrollments>>
    /\ UNCHANGED <<lock, pc, arg, sess_eval, pending, user_appends, outcome_writers,
                   judge_calls, history>>

(***************************************************************************)
(* Initial states.  Challenges and tournaments are rows the handlers only  *)
(* read; they are whatever an administrator stored.                        *)
(***************************************************************************)
UserIds == {1, 2}
ChallengeIds == {1, 2}
TournamentIds == {1, 2}             \* ids joined; only id 1 is stored

ChallengeRows ==
    [required_tools : {{}, {"scanner"}, Tools}, evaluation_prompt : {None, " ", "criteria"},
     system_prompt : {None}, initial_llm_prompt : {None}]

TournamentRows ==
    {r \in [start_date : 0..(MaxClock + 1), end_date : 0..(MaxClock + 1)] :
        r.start_date <= r.end_date}

\* a session that has loaded no evaluation row
NoEvaluation ==
    [id |-> 0, user_challenge_context_id |-> Null, processed_at |-> Null,
     succeeded_at |-> Null, failed_at |-> Null, errored_at |-> Null,
     result |-> None, result_text |-> None]

InitSession ==
    /\ pc = [p \in Procs |-> "idle"]
    /\ arg = [p \in Procs |-> NoArg]
    /\ sess_eval = [p \in Procs |-> NoEvaluation]
    /\ pending = [p \in Procs |-> NoPending]
    /\ ret = [p \in Procs |-> NoRet]
    /\ lock = 0
    /\ clock = 1
    /\ calls = 0
    /\ user_appends = 0
    /\ mark_count = 0
    /\ outcome_writers = {}
    /\ judge_calls = 0
    /\ history = <<>>
    /\ users = <<>>
    /\ sessions = [p \in Procs |-> [id |-> p, failed |-> FALSE]]
    /\ ensure_user_cache = {}
    /\ executed_tools = 0
    /\ lock_depth = 0
    /\ wall = 0
    /\ provider_calls = <<>>
    /\ evaluate_requests = {}

\* a pool in which earlier requests left n idle connections
PoolOf(n) == [idle |-> [i \in 1..n |-> i], held |-> [p \in Procs |-> 0], opened |-> n]

\* SupabaseAuth.__init__, server.py:88-103, around a client or around None
AuthHandlerOf(supabase) == [supabase |-> supabase, cache |-> [t \in Tokens |-> NoEntry]]

\* a new engine has opened no connection; Supabase is not configured
InitLocals ==
    /\ InitSession
    /\ pool = PoolOf(0)
    /\ auth_handler = AuthHandlerOf(None)

\* an empty database with its challenges: the state start_challenge finds
InitStart ==
    /\ InitLocals
    /\ challenges \in [ChallengeIds -> {[required_tools |-> {"scanner"},
                                         evaluation_prompt |-> None,
                                         system_prompt |-> None,
                                         initial_llm_prompt |-> None]}]
    /\ user_challenge_contexts = <<>>
    /\ challenge_evaluations = <<>>
    /\ user_challenge_context_messages = <<>>
    /\ tournaments = <<>>
    /\ user_tournament_enrollments = <<>>

\* one tournament with any window
InitJoin ==
    /\ InitLocals
    /\ challenges = <<>>
    /\ user_challenge_contexts = <<>>
    /\ challenge_evaluations = <<>>
    /\ user_challenge_context_messages = <<>>
    /\ tournaments \in [{1} -> TournamentRows]
    /\ user_tournament_enrollments = <<>>

\* one or two tournaments with any window
InitList ==
    /\ InitLocals
    /\ challenges = <<>>
    /\ user_challenge_contexts = <<>>
    /\ challenge_evaluations = <<>>
    /\ user_challenge_context_messages = <<>>
    /\ tournaments \in [{1} -> TournamentRows]
                          \cup {<<r, [start_date |-> 2, end_date |-> 3]>> : r \in TournamentRows}
    /\ user_tournament_enrollments = <<>>

\* an empty database: no user has signed in yet
InitUser ==
    /\ InitLocals
    /\ challenges = <<>>
    /\ user_challenge_contexts = <<>>
    /\ challenge_evaluations = <<>>
    /\ user_challenge_context_messages = <<>>
    /\ tournaments = <<>>
    /\ user_tournament_enrollments = <<>>

\* the chat entries the data-access layer stores: the user's message
\* (add_message_to_challenge), and what add_chat_entries_to_challenge_no_checks
\* accepts: a plain response, a tool-aware response with or without tool
\* calls, a tool-aware message with or without tool calls
StoredEntries ==
    {[user_challenge_context_id |-> 1, role |-> "user", content_type |-> "ChatMessageWithTools",
      tool_calls |-> {}, created_at |-> 0, content |-> "message"],
     [user_challenge_context_id |-> 1, role |-> "assistant", content_type |-> "ChatResponse",
      tool_calls |-> {}, created_at |-> 0, content |-> "reply"]}
    \cup {[user_challenge_context_id |-> 1, role |-> "assistant",
           content_type |-> "ChatResponseWithTools", tool_calls |-> called,
           created_at |-> 0, content |-> "reply"] : called \in SUBSET Tools}
    \cup {[user_challenge_context_id |-> 1, role |-> "assistant",
           content_type |-> "ChatMessageWithTools", tool_calls |-> called,
           created_at |-> 0, content |-> ""] : called \in (SUBSET Tools) \ {{}}}

StoredLogs ==
    UNION {[1..n -> StoredEntries] : n \in 0..MaxLog}

\* entries of each stored shape, and logs of them whose rows sit in the
\* table in the order of their commits, which need not be the order of the
\* created_at stamps their sessions took
ContextEntries ==
    {e \in StoredEntries : e.tool_calls \in {{}, {"scanner"}}}

ContextLogs ==
    UNION {{[i \in 1..n |-> [log[i] EXCEPT !.created_at = stamps[i]]] :
               log \in [1..n -> ContextEntries], stamps \in [1..n -> 1..MaxLog]} :
           n \in 0..MaxLog}

\* user 1 has started challenge 1, which defines any of its two prompts
InitContext ==
    /\ InitLocals
    /\ challenges \in [{1} -> [required_tools : {{"scanner"}}, evaluation_prompt : {None},
                               system_prompt : {None, "", "system prompt"},
                               initial_llm_prompt : {None, "", "initial prompt"}]]
    /\ user_challenge_contexts = <<[id |-> 1, user_id |-> 1, challenge_id |-> 1,
                                    can_contribute |-> TRUE]>>
    /\ challenge_evaluations = <<[id |-> 1, user_challenge_context_id |-> 1,
                                  processed_at |-> Null, succeeded_at |-> Null,
                                  failed_at |-> Null, errored_at |-> Null,
                                  result |-> None, result_text |-> None]>>
    /\ user_challenge_context_messages \in ContextLogs
    /\ tournaments = <<>>
    /\ user_tournament_enrollments = <<>>

\* no red-team run has started; the runs do not touch the database
InitRedTeam ==
    /\ InitLocals
    /\ challenges = <<>>
    /\ user_challenge_contexts = <<>>
    /\ challenge_evaluations = <<>>
    /\ user_challenge_context_messages = <<>>
    /\ tournaments = <<>>
    /\ user_tournament_enrollments = <<>>

\* user 1 has started challenge 1 and the conversation is over: any log of
\* stored entries, none evaluated yet
InitVerdict ==
    /\ InitLocals
    /\ challenges \in [{1} -> ChallengeRows]
    /\ user_challenge_contexts = <<[id |-> 1, user_id |-> 1, challenge_id |-> 1,
                                    can_contribute |-> TRUE]>>
    /\ challenge_evaluations = <<[id |-> 1, user_challenge_context_id |-> 1,
                                  processed_at |-> Null, succeeded_at |-> Null,
                                  failed_at |-> Null, errored_at |-> Null,
                                  result |-> None, result_text |-> None]>>
    /\ \E log \in StoredLogs :
          user_challenge_context_messages =
              [i \in DOMAIN log |-> [log[i] EXCEPT !.created_at = i]]
    /\ tournaments = <<>>
    /\ user_tournament_enrollments = <<>>

\* user 1 has started challenge 1 (the rows start_challenge commits); the
\* log is empty or holds one row written with a content_type the replay
\* does not know
LegacyRow ==
    [user_challenge_context_id |-> 1, role |-> "assistant", content_type |-> "Unknown",
     tool_calls |-> {}, created_at |-> 0, content |-> "legacy"]

InitEval ==
    /\ InitLocals
    /\ challenges \in [{1} -> ChallengeRows]
    /\ user_challenge_contexts = <<[id |-> 1, user_id |-> 1, challenge_id |-> 1,
                                    can_contribute |-> TRUE]>>
    /\ challenge_evaluations = <<[id |-> 1, user_challenge_context_id |-> 1,
                                  processed_at |-> Null, succeeded_at |-> Null,
                                  failed_at |-> Null, errored_at |-> Null,
                                  result |-> None, result_text |-> None]>>
    /\ user_challenge_context_messages \in {<<>>, <<LegacyRow>>}
    /\ tournaments = <<>>
    /\ user_tournament_enrollments = <<>>

\* a message row a user stored earlier
UserRow ==
    [user_challenge_context_id |-> 1, role |-> "user", content_type |-> "ChatMessageWithTools",
     tool_calls |-> {}, created_at |-> 0, content |-> "message"]

\* user 1 has started challenge 1 and has stored some messages, at most the cap
InitCap ==
    /\ InitLocals
    /\ challenges \in [{1} -> {ch \in ChallengeRows : ch.evaluation_prompt = None}]
    /\ user_challenge_contexts = <<[id |-> 1, user_id |-> 1, challenge_id |-> 1,
                                    can_contribute |-> TRUE]>>
    /\ challenge_evaluations = <<[id |-> 1, user_challenge_context_id |-> 1,
                                  processed_at |-> Null, succeeded_at |-> Null,
                                  failed_at |-> Null, errored_at |-> Null,
                                  result |-> None, result_text |-> None]>>
    /\ user_challenge_context_messages \in
          {[i \in 1..n |-> UserRow] : n \in 0..MAX_USER_MESSAGE_COUNT_FOR_CHALLENGE}
    /\ tournaments = <<>>
    /\ user_tournament_enrollments = <<>>

\* user 1 has started challenge 1, which defines any of its two prompts and
\* requires a tool or none, and has stored some messages, at most the cap
InitChat ==
    /\ InitLocals
    /\ challenges \in [{1} -> [required_tools : {{}, {"scanner"}}, evaluation_prompt : {None},
                               system_prompt : {None, "system prompt"},
                               initial_llm_prompt : {None, "initial prompt"}]]
    /\ user_challenge_contexts = <<[id |-> 1, user_id |-> 1, challenge_id |-> 1,
                                    can_contribute |-> TRUE]>>
    /\ challenge_evaluations = <<[id |-> 1, user_challenge_context_id |-> 1,
                                  processed_at |-> Null, succeeded_at |-> Null,
                                  failed_at |-> Null, errored_at |-> Null,
                                  result |-> None, result_text |-> None]>>
    /\ user_challenge_context_messages \in
          {[i \in 1..n |-> UserRow] : n \in 0..MAX_USER_MESSAGE_COUNT_FOR_CHALLENGE}
    /\ tournaments = <<>>
    /\ user_tournament_enrollments = <<>>

\* the server with or without a Supabase client (server.py:64-79); the
\* requests of SpecAuth do not reach the database
InitAuth ==
    /\ InitSession
    /\ pool = PoolOf(0)
    /\ auth_handler \in {AuthHandlerOf(None), AuthHandlerOf("client")}
    /\ challenges = <<>>
    /\ user_challenge_contexts = <<>>
    /\ challenge_evaluations = <<>>
    /\ user_challenge_context_messages = <<>>
    /\ tournaments = <<>>
    /\ user_tournament_enrollments = <<>>

\* the state of InitEval behind an engine that has served requests before
InitLock ==
    /\ InitSession
    /\ pool \in {PoolOf(n) : n \in 0..MaxIdle}
    /\ auth_handler = AuthHandlerOf(None)
    /\ challenges \in [{1} -> ChallengeRows]
    /\ user_challenge_contexts = <<[id |-> 1, user_id |-> 1, challenge_id |-> 1,
                                    can_contribute |-> TRUE]>>
    /\ challenge_evaluations = <<[id |-> 1, user_challenge_context_id |-> 1,
                                  processed_at |-> Null, succeeded_at |-> Null,
                                  failed_at |-> Null, errored_at |-> Null,
                                  result |-> None, result_text |-> None]>>
    /\ user_challenge_context_messages = <<>>
    /\ tournaments = <<>>
    /\ user_tournament_enrollments = <<>>

(***************************************************************************)
(* Specifications.                                                         *)
(***************************************************************************)
AllIdle == \A q \in Procs : pc[q] = "idle"

EvaluateStep(p) ==
    \/ acquire_lock(p)
    \/ set_challenge_context_processed(p)
    \/ release_lock(p)
    \/ compute_verdict(p)
    \/ commit_result(p)

AddMessageStep(p) ==
    \/ add_message_count(p)
    \/ add_message_commit(p)
    \/ solicit_llm_response(p)

\* concurrent evaluate and add_message requests on the context of user 1
NextEval ==
    \E p \in Procs :
        \/ calls < MaxCalls /\ \E cid \in {1, 2} : evaluate_load(p, cid)
        \/ EvaluateStep(p)
        \/ calls < MaxCalls /\ \E role \in Roles : add_message_select(p, 1, 1, role)
        \/ AddMessageStep(p)

SpecEval == InitEval /\ [][NextEval]_vars

\* the same requests issued one at a time
NextSeq ==
    \E p \in Procs :
        \/ AllIdle /\ calls < MaxSeqCalls /\ \E cid \in {1, 2} : evaluate_load(p, cid)
        \/ EvaluateStep(p)
        \/ AllIdle /\ calls < MaxSeqCalls
              /\ \E role \in Roles : add_message_select(p, 1, 1, role)
        \/ AddMessageStep(p)

SpecSeq == InitEval /\ [][NextSeq]_vars

\* concurrent start_challenge requests
NextStart ==
    \E p \in Procs :
        \/ calls < MaxSeqCalls
              /\ \E u \in UserIds, c \in ChallengeIds : start_challenge_select(p, u, c)
        \/ start_challenge_commit(p)

SpecStart == InitStart /\ [][NextStart]_vars

\* join_tournament requests issued one at a time while time passes
NextJoin ==
    \/ Tick
    \/ \E p \in Procs :
          \/ AllIdle /\ calls < MaxSeqCalls
                /\ \E u \in UserIds, t \in TournamentIds : join_tournament_select(p, u, t)
          \/ join_tournament_commit(p)

SpecJoin == InitJoin /\ [][NextJoin]_vars

\* list_tournaments requests while time passes
PageIndexes == {0, 1}
Counts == {1, 10}

NextList ==
    \/ Tick
    \/ \E p \in Procs, f \in SelectionFilter, page_index \in PageIndexes, count \in Counts :
          calls < MaxCalls /\ list_tournaments(p, f, page_index, count)

SpecList == InitList /\ [][NextList]_vars

\* concurrent ensure_user_exists calls of requests in their own Sessions
NextUser ==
    \E p \in Procs :
        \/ calls < MaxSeqCalls /\ \E user_sub \in Subs : ensure_user_select(p, user_sub)
        \/ ensure_user_commit(p)
        \/ get_db(p)

SpecUser == InitUser /\ [][NextUser]_vars

\* evaluate requests, one at a time, on a finished conversation
NextVerdict ==
    \E p \in Procs :
        \/ AllIdle /\ calls < MaxCalls /\ evaluate_load(p, 1)
        \/ EvaluateStep(p)

SpecVerdict == InitVerdict /\ [][NextVerdict]_vars

\* reads of the context response
NextContext ==
    \E p \in Procs, u \in UserIds :
        calls < MaxCalls /\ get_challenge_context_response(p, u, 1)

SpecContext == InitContext /\ [][NextContext]_vars

\* red-team runs: automated ones take every registry tool as malicious
\* (red_team_agent.py:308-309), a session takes the names it is given
NextRedTeam ==
    \E p \in Procs :
        \/ calls < MaxCalls /\ \E n \in 1..MaxPrompts :
              red_team_start(p, "automated", n, RedTeamTools)
        \/ calls < MaxCalls /\ \E n \in 1..MaxPrompts, malicious \in {{"delete_all"}, RedTeamTools} :
              red_team_start(p, "session", n, malicious)
        \/ red_team_exhausted(p)
        \/ red_team_operator(p)
        \/ red_team_attempt(p)

SpecRedTeam == InitRedTeam /\ [][NextRedTeam]_vars

NextTool ==
    \E p \in Procs :
        calls < MaxCalls /\ \E tool_name \in ToolNames, arguments \in ToolArguments,
                               mock_mode \in BOOLEAN :
            execute_tool(p, tool_name, arguments, mock_mode)

SpecTool == InitRedTeam /\ [][NextTool]_vars

NextClient ==
    \E p \in Procs :
        calls < MaxCalls /\ \E model \in ModelIds, keys \in SUBSET Providers,
                               gateway \in GatewayOutcomes :
            chat_completion(p, model, keys, gateway)

SpecClient == InitRedTeam /\ [][NextClient]_vars

\* concurrent evaluate requests; the event loop runs every step of a
\* request that can be taken
NextLock ==
    \E p \in Procs :
        \/ calls < MaxCalls /\ \E cid \in {1, 2} : evaluate_load(p, cid)
        \/ EvaluateStep(p)

SpecLock == InitLock /\ [][NextLock]_vars /\ \A p \in Procs : WF_vars(EvaluateStep(p))

\* token verifications, one after the other, while time passes
NextAuth ==
    \/ Sleep
    \/ \E p \in Procs, token \in Tokens : calls < MaxSeqCalls /\ verify_token(p, token)

SpecAuth == InitAuth /\ [][NextAuth]_vars

\* concurrent add_message requests on the context of user 1
NextCap ==
    \E p \in Procs :
        \/ calls < MaxSeqCalls /\ \E role \in Roles : add_message_select(p, 1, 1, role)
        \/ AddMessageStep(p)

SpecCap == InitCap /\ [][NextCap]_vars

\* contexts are started, then evaluated, by concurrent requests
NextLife ==
    \E p \in Procs :
        \/ calls < MaxSeqCalls
              /\ \E u \in UserIds, c \in ChallengeIds : start_challenge_select(p, u, c)
        \/ start_challenge_commit(p)
        \/ calls < MaxSeqCalls /\ \E cid \in {1, 2} : evaluate_load(p, cid)
        \/ EvaluateStep(p)

SpecLife == InitStart /\ [][NextLife]_vars

\* users start challenges and ask for their evaluation through the route
NextRoute ==
    \E p \in Procs :
        \/ calls < MaxSeqCalls
              /\ \E u \in UserIds, c \in ChallengeIds : start_challenge_select(p, u, c)
        \/ start_challenge_commit(p)
        \/ calls < MaxSeqCalls
              /\ \E u \in UserIds, c \in ChallengeIds : evaluate_route(p, u, c)

SpecRoute == InitStart /\ [][NextRoute]_vars

\* add_message requests of user 1 on challenge 1, issued one at a time
NextChat ==
    \E p \in Procs :
        \/ AllIdle /\ calls < MaxSeqCalls
              /\ \E role \in Roles : add_message_select(p, 1, 1, role)
        \/ AddMessageStep(p)

SpecChat == InitChat /\ [][NextChat]_vars

Spec == SpecEval

(***************************************************************************)
(* Properties.                                                             *)
(***************************************************************************)
EvaluateReturned(r) == r.kind = "return" /\ r.op = "evaluate"
RaceError(r) == r.kind = "raise" /\ r.op = "evaluate" /\ r.exc = "ValueError"

\* C1: with calls issued one at a time, every evaluate call after the first
\* one on a context returns the EvalResult of the first call, sends no judge
\* request and leaves the evaluation row (processed_at, the outcome
\* timestamps, the result text) as the first call left it; no call ends in
\* the race-condition error.
C1_EvaluatedAtMostOnce ==
    /\ \A i \in 1..Len(history) :
          /\ history[i].result = history[1].result
          /\ history[i].judge_calls = history[1].judge_calls
          /\ history[i].row = history[1].row
    /\ Len(history) >= 1 =>
          /\ judge_calls = history[1].judge_calls
          /\ challenge_evaluations[1] = history[1].row
    /\ judge_calls <= 1
    /\ \A p \in Procs : ~RaceError(ret[p])

\* a judged verdict was returned by a first call and again by a later one
C1_Witness ==
    /\ Len(history) >= 2
    /\ judge_calls = 1
    /\ history[2].result.status = SUCCEEDED
    /\ history[2].result.reason = "met criteria"

\* the evaluation row of the context of user 1
Row1 == challenge_evaluations[1]
OutcomeCount(r) ==
    (IF r.succeeded_at # Null THEN 1 ELSE 0) + (IF r.failed_at # Null THEN 1 ELSE 0)
        + (IF r.errored_at # Null THEN 1 ELSE 0)
\* the call ran the verdict computation (lines 231-255) before it returned
RanVerdict(r) == EvaluateReturned(r) /\ "caught" \in DOMAIN r

\* C2: of concurrent evaluate calls on one unprocessed context, at most one
\* commits the mark-processed transition and at most one writes an outcome
\* timestamp.
C2_SingleMarkProcessed ==
    /\ mark_count <= 1
    /\ Cardinality(outcome_writers) <= 1

\* C3: once processed_at is stamped (and can_contribute is false), no
\* user-role row is committed to the context.
C3_NoUserMessageAfterProcessed ==
    [][Row1.processed_at # Null =>
          get_user_message_count_in_challenge_context(1)' =
              get_user_message_count_in_challenge_context(1)]_vars

\* C4: an evaluation row never has two outcome timestamps, and a call that
\* ran the verdict computation leaves exactly one, with processed_at.
C4_OneOutcome ==
    /\ OutcomeCount(Row1) <= 1
    /\ \A p \in Procs : RanVerdict(ret[p]) =>
          OutcomeCount(Row1) = 1 /\ Row1.processed_at # Null

\* C5: a call whose verdict computation raised returns status ERRORED, with
\* errored_at set and the exception message stored as result_text.
C5_ExceptionBecomesErrored ==
    \A p \in Procs : (RanVerdict(ret[p]) /\ ret[p].caught) =>
        /\ ret[p].value.status = ERRORED
        /\ ret[p].value.reason = OrElse(ret[p].message, "No result text")
        /\ Row1.errored_at # Null

CapError(r) ==
    r.kind = "raise" /\ r.op = "add_message"
        /\ r.message = "Maximum message count reached for this challenge."

\* C7: with calls issued one at a time, the stored user-role rows are the
\* user-role appends that succeeded, never more than the cap; an append is
\* rejected for the cap only at the cap and none passes the check there; the
\* remaining count reported is the cap minus the successful user-role
\* appends and is 0 exactly at the cap.
C7_MessageCap ==
    /\ user_appends <= MAX_USER_MESSAGE_COUNT_FOR_CHALLENGE
    /\ remaining_message_count(1) = MAX_USER_MESSAGE_COUNT_FOR_CHALLENGE - user_appends
    /\ remaining_message_count(1) = 0 <=> user_appends = MAX_USER_MESSAGE_COUNT_FOR_CHALLENGE
    /\ \A p \in Procs :
          /\ CapError(ret[p]) => user_appends = MAX_USER_MESSAGE_COUNT_FOR_CHALLENGE
          /\ pc[p] = "add_message_commit" =>
                user_appends < MAX_USER_MESSAGE_COUNT_FOR_CHALLENGE

\* the cap was filled by user-role appends and the next append was rejected
C7_Witness ==
    /\ user_appends = MAX_USER_MESSAGE_COUNT_FOR_CHALLENGE
    /\ remaining_message_count(1) = 0
    /\ user_challenge_contexts[1].can_contribute
    /\ \E p \in Procs : CapError(ret[p])

ContextsOf(u, c) ==
    {i \in DOMAIN user_challenge_contexts :
        user_challenge_contexts[i].user_id = u /\ user_challenge_contexts[i].challenge_id = c}
EvaluationsOf(cid) ==
    {i \in DOMAIN challenge_evaluations :
        challenge_evaluations[i].user_challenge_context_id = cid}

C9_DuplicateStartRejected ==
    [][\A p \in Procs, u \in UserIds, c \in ChallengeIds :
          (start_challenge_select(p, u, c) /\ ContextsOf(u, c) # {}) =>
              (ret'[p].kind = "raise" /\ ret'[p].exc = "ValueError")]_vars

EnrollmentsOf(u, t) ==
    {i \in DOMAIN user_tournament_enrollments :
        user_tournament_enrollments[i].user_id = u
            /\ user_tournament_enrollments[i].tournament_id = t}
Active(t) == tournaments[t].start_date <= clock /\ clock <= tournaments[t].end_date

\* what join_tournament does for a tournament that is missing or outside
\* its window, and that no pair is enrolled twice
JoinRejections(p, u, t) ==
    /\ t \notin DOMAIN tournaments =>
          (ret'[p].kind = "raise" /\ ret'[p].exc = "NotFoundError")
    /\ (t \in DOMAIN tournaments /\ ~Active(t)) =>
          (ret'[p].kind = "raise" /\ ret'[p].exc = "ValueError")
    /\ (t \in DOMAIN tournaments /\ Active(t) /\ EnrollmentsOf(u, t) = {}) =>
          pc'[p] = "join_commit"
    /\ UNCHANGED tables

JoinCreates(p) ==
    /\ ret'[p].kind = "return"
    /\ Len(user_tournament_enrollments') = Len(user_tournament_enrollments) + 1
    /\ LET row == user_tournament_enrollments'[Len(user_tournament_enrollments')]
       IN /\ row.user_id = arg[p].user_id /\ row.tournament_id = arg[p].tournament_id
          /\ ret'[p].value = row.id

NoDuplicateEnrollment ==
    \A u \in UserIds, t \in TournamentIds : Cardinality(EnrollmentsOf(u, t)) <= 1

ExpectedFilters(t, now) ==
    IF t.start_date <= now /\ now <= t.end_date
    THEN {ACTIVE_ONLY, PAST_AND_ACTIVE, ACTIVE_AND_FUTURE}
    ELSE IF t.end_date < now THEN {PAST_ONLY, PAST_AND_ACTIVE}
    ELSE {FUTURE_ONLY, ACTIVE_AND_FUTURE}

InSeq(x, seq) == \E i \in DOMAIN seq : seq[i] = x

\* C11: every list_tournaments call returns a result, and on the first page of
\* default size the result holds a tournament exactly when the filter is one
\* the tournament's window selects at the time of the call.
C11_FiltersByWindow ==
    \A p \in Procs : (ret[p].kind # "none" /\ ret[p].op = "list") =>
        /\ ret[p].kind = "return"
        /\ (ret[p].page_index = 0 /\ ret[p].count = 10) =>
              \A i \in DOMAIN tournaments :
                  InSeq(i, ret[p].value) <=>
                      ret[p].selection_filter \in ExpectedFilters(tournaments[i], ret[p].now)

UsersOf(user_sub) == {i \in DOMAIN users : users[i].sub_id = user_sub}
EnsureReturned(r) == r.kind = "return" /\ r.op = "ensure_user"

\* C12: no subject id ever has two Users rows; every ensure_user_exists call
\* that returns, from the cache or from the database, returns the id of the
\* one row of its subject id, in whatever order sessions interleave.
C12_EnsureUserIdempotent ==
    /\ \A user_sub \in Subs : Cardinality(UsersOf(user_sub)) <= 1
    /\ \A p \in Procs : EnsureReturned(ret[p]) =>
          /\ Cardinality(UsersOf(ret[p].sub)) = 1
          /\ \A i \in UsersOf(ret[p].sub) : ret[p].value = users[i].id
    /\ \A e \in ensure_user_cache :
          /\ Cardinality(UsersOf(e.sub)) = 1
          /\ \A i \in UsersOf(e.sub) : e.user_id = users[i].id

\* two sessions raced on the first call of a subject id: both found no row,
\* one insert was committed and returned the new id, the other was rejected
\* by the unique constraint and its call raised
C12_Witness ==
    \E p, q \in Procs :
        /\ EnsureReturned(ret[p])
        /\ ret[q].kind = "raise" /\ ret[q].op = "ensure_user" /\ ret[q].exc = "IntegrityError"
        /\ ret[q].sub = ret[p].sub
        /\ Cardinality(UsersOf(ret[p].sub)) = 1
        /\ ret[p].value = users[UserIndex(ret[p].sub)].id

\* the challenge of the context of user 1
Challenge1 == challenges[1]
\* the tool names carried by the stored entries of a context, in any shape
RecordedToolCalls(cid) ==
    UNION {MessagesOf(cid)[i].tool_calls : i \in DOMAIN MessagesOf(cid)}
NonBlank(prompt) == prompt \notin {None, "", " "}

RequiredToolMissing(cid) ==
    Challenge1.required_tools # {} /\ Challenge1.required_tools \ get_called_tools(cid) # {}

\* C14: with a non-blank evaluation prompt, a failed required-tool check is
\* final and no judge request is sent; otherwise one judge request is sent
\* and a verdict the judge returns decides the status (SUCCEEDED for a
\* non-zero success flag, FAILED for zero) and the reason, whatever the tool
\* check found.  A judge request that fails or cannot be decoded raises.
C14_JudgeOverridesToolCheck ==
    /\ [](NonBlank(Challenge1.evaluation_prompt) =>
            \A reply \in JudgeReplies :
                LET v == get_evaluation_result(Challenge1, 1, reply)
                IN IF RequiredToolMissing(1)
                   THEN /\ ~v.judged /\ ~v.raised
                        /\ v.status = FAILED /\ v.reason = "Not all tools called"
                   ELSE /\ v.judged
                        /\ reply.kind = "json" =>
                              /\ ~v.raised
                              /\ v.status = (IF reply.success # 0 THEN SUCCEEDED ELSE FAILED)
                              /\ v.reason = reply.reason
                        /\ reply.kind # "json" => v.raised)
    /\ [][\A p \in Procs :
            (compute_verdict(p) /\ NonBlank(Challenge1.evaluation_prompt)) =>
                judge_calls' = judge_calls + (IF RequiredToolMissing(1) THEN 0 ELSE 1)]_vars
    /\ [](\A p \in Procs :
            (RanVerdict(ret[p]) /\ NonBlank(Challenge1.evaluation_prompt)) =>
                /\ judge_calls = (IF RequiredToolMissing(1) THEN 0 ELSE 1)
                /\ RequiredToolMissing(1) => ret[p].value.status = FAILED
                /\ ~ret[p].caught => ret[p].value.status \in {SUCCEEDED, FAILED})

\* every required tool was called, so the tool check passed, and the one
\* judge request answered success = 0: the evaluation returned FAILED with
\* the judge's reason
C14_Witness ==
    \E p \in Procs :
        /\ RanVerdict(ret[p])
        /\ Challenge1.evaluation_prompt = "criteria"
        /\ Challenge1.required_tools = Tools
        /\ Tools \subseteq get_called_tools(1)
        /\ judge_calls = 1
        /\ ret[p].value.status = FAILED
        /\ ret[p].value.reason = "criteria not met"

ContextReturned(r) == r.kind = "return" /\ r.op = "context"
\* the number of messages the challenge of user 1 defines
DefinedPrompts ==
    (IF Challenge1.system_prompt \notin {None, ""} THEN 1 ELSE 0)
        + (IF Challenge1.initial_llm_prompt \notin {None, ""} THEN 1 ELSE 0)
\* the one-to-one orderings of the stored rows of context 1
RowOrders ==
    {f \in [DOMAIN MessagesOf(1) -> DOMAIN MessagesOf(1)] :
        \A i, j \in DOMAIN f : i # j => f[i] # f[j]}

\* C15: the message list of a context response is the system-prompt message
\* (when the challenge has one), then the initial assistant-prompt message
\* (when it has one), then one message per stored chat entry of the context,
\* all of them, in ascending created_at order.
C15_ContextMessagesOrdered ==
    \A p \in Procs : ContextReturned(ret[p]) =>
        LET msgs == ret[p].value.messages
            d == DefinedPrompts
        IN /\ Len(msgs) = d + Len(MessagesOf(1))
           /\ Challenge1.system_prompt \notin {None, ""} =>
                 msgs[1] = Message("system", Challenge1.system_prompt, FALSE, {})
           /\ Challenge1.initial_llm_prompt \notin {None, ""} =>
                 msgs[d] = Message("assistant", Challenge1.initial_llm_prompt, FALSE, {})
           /\ \E f \in RowOrders :
                 /\ \A i, j \in DOMAIN f : i < j =>
                       MessagesOf(1)[f[i]].created_at <= MessagesOf(1)[f[j]].created_at
                 /\ \A i \in DOMAIN f : msgs[d + i] = MapChatEntry(MessagesOf(1)[f[i]])

\* a challenge with both prompts, and two rows whose table order is the
\* reverse of their created_at order: the response lists the system message,
\* the assistant message, then the earlier row before the later one
C15_Witness ==
    \E p \in Procs :
        /\ ContextReturned(ret[p])
        /\ DefinedPrompts = 2
        /\ Len(MessagesOf(1)) = 2
        /\ MessagesOf(1)[1].created_at > MessagesOf(1)[2].created_at
        /\ MessagesOf(1)[1].role = "user" /\ MessagesOf(1)[2].role = "assistant"
        /\ Len(ret[p].value.messages) = 4
        /\ ret[p].value.messages[3].role = "assistant"
        /\ ret[p].value.messages[4].role = "user"

RedTeamEnded(r) == r.kind # "none" /\ r.op = "red_team"
\* the replies that carry a call to a malicious tool
MaliciousReplies(r) ==
    {k \in DOMAIN r.replies : r.replies[k].tool_calls \cap r.malicious # {}}

\* C16: a run in which the response to the k-th prompt sent is the first one
\* that calls a malicious tool returns successful_attack = true,
\* total_attempts = k and k attempts, and sends no further prompt.
C16_StopsOnFirstHit ==
    \A p \in Procs : RedTeamEnded(ret[p]) =>
        \A k \in MaliciousReplies(ret[p]) :
            (\A j \in MaliciousReplies(ret[p]) : k <= j) =>
                /\ ret[p].kind = "return"
                /\ ret[p].value.successful_attack
                /\ ret[p].value.total_attempts = k
                /\ Len(ret[p].value.attempts) = k
                /\ ret[p].sent = k

\* C17: no red-team run executes a tool: ToolRegistry.execute_tool is not
\* called, whatever tool calls the model's responses carry.
C17_NoToolExecuted ==
    executed_tools = 0

\* a run sent a prompt and the model answered with a call to a malicious
\* tool; chat_with_tools returned and nothing was executed
C17_Witness ==
    \E p \in Procs :
        /\ RedTeamEnded(ret[p])
        /\ MaliciousReplies(ret[p]) # {}
        /\ executed_tools = 0

\* C18: execute_tool never raises: it returns a result with an error and
\* no output for an unknown tool, for arguments that are not valid JSON,
\* for a handler that cannot be resolved and for a handler that throws,
\* and a result with an output and no error otherwise.
C18_ExecuteToolNeverRaises ==
    \A p \in Procs : (ret[p].kind # "none" /\ ret[p].op = "execute_tool") =>
        /\ ret[p].kind = "return"
        /\ (ret[p].value.error # None) # (ret[p].value.output # None)
        /\ (\/ ret[p].tool_name = "unregistered"
            \/ ret[p].arguments \in {"str:malformed", "str:deep", "str:digits"}
            \/ (~ret[p].mock_mode /\ ret[p].tool_name \in {"bare", "missing", "failing"}))
              => ret[p].value.error # None

\* C19: chat_completion raises LLMValidationError for a model that is not
\* in the catalogue, LLMAPIError without a gateway call for a catalogued
\* model whose provider key is missing, LLMAPIError carrying the cause when
\* the gateway call fails, and no other exception type.
C19_ClientErrorClasses ==
    \A p \in Procs : (ret[p].kind # "none" /\ ret[p].op = "chat_completion") =>
        /\ ret[p].kind = "raise" => ret[p].exc \in {"LLMValidationError", "LLMAPIError"}
        /\ ret[p].model \notin DOMAIN ModelCatalog =>
              (ret[p].kind = "raise" /\ ret[p].exc = "LLMValidationError")
        /\ (ret[p].model \in DOMAIN ModelCatalog /\ ModelCatalog[ret[p].model] \notin ret[p].keys) =>
              (ret[p].kind = "raise" /\ ret[p].exc = "LLMAPIError" /\ ret[p].gateway_calls = 0)
        /\ (/\ ret[p].model \in DOMAIN ModelCatalog
            /\ ModelCatalog[ret[p].model] \in ret[p].keys
            /\ ret[p].gateway \notin {"ok", "invalid"}) =>
              (/\ ret[p].kind = "raise" /\ ret[p].exc = "LLMAPIError"
               /\ ret[p].original_error = ret[p].gateway)

\* C20: an evaluate call that starts while the evaluation row has
\* processed_at set and no outcome timestamp ends in the error 'Evaluation
\* race condition' of the mark-processed step.
C20_InFlightCallRaises ==
    [][\A p \in Procs :
          (evaluate_load(p, 1) /\ Row1.processed_at # Null /\ OutcomeCount(Row1) = 0) =>
              (RaceError(ret'[p]) /\ ret'[p].message = "Evaluation race condition")]_vars

\* C21: every context row has exactly one evaluation row that references
\* it, every evaluation row references a context, and no step adds an
\* evaluation row to a context that already has one, also when duplicate
\* start_challenge requests race.
C21_OneEvaluationPerContext ==
    /\ [](/\ \A i \in DOMAIN user_challenge_contexts :
                \E j \in DOMAIN challenge_evaluations :
                    EvaluationsOf(user_challenge_contexts[i].id) = {j}
          /\ \A j \in DOMAIN challenge_evaluations :
                \E i \in DOMAIN user_challenge_contexts :
                    challenge_evaluations[j].user_challenge_context_id =
                        user_challenge_contexts[i].id)
    /\ [][\A i \in DOMAIN user_challenge_contexts :
            LET cid == user_challenge_contexts[i].id
            IN {j \in DOMAIN challenge_evaluations' :
                    challenge_evaluations'[j].user_challenge_context_id = cid}
                  = EvaluationsOf(cid)]_vars

\* two requests for one pair raced: one created the context and its
\* evaluation row, the other was rejected by the unique constraint, and a
\* second pair has rows of its own
C21_Witness ==
    /\ \E p, q \in Procs :
          /\ ret[p].kind = "return" /\ ret[p].op = "start"
          /\ ret[q].kind = "raise" /\ ret[q].op = "start" /\ ret[q].exc = "IntegrityError"
    /\ Len(user_challenge_contexts) = 2
    /\ Len(challenge_evaluations) = 2

\* C22: when the scope of Locker.acquire_lock is left, on the normal path
\* and on the exception path, the advisory lock is not held any more, and
\* a session waiting for the lock eventually takes it.
C22_LockReleasedOnExit ==
    /\ [][\A p \in Procs : release_lock(p) => lock' = 0]_vars
    /\ \A p \in Procs : (pc[p] = "acquire_lock") ~> (pc[p] # "acquire_lock")

\* the provider calls made for one token, as indices of provider_calls
CallsFor(token) == {i \in DOMAIN provider_calls : provider_calls[i].token = token}

\* what every lookup does with the cache entry: before the expiry it returns
\* the cached claims and calls nobody; from the expiry on it calls the
\* provider and the old entry is gone; a failed verification leaves no entry
LookupSteps ==
    [][\A p \in Procs, token \in Tokens :
          (verify_token(p, token) /\ auth_handler.supabase # None) =>
              LET entry == auth_handler.cache[token]
              IN /\ (entry # NoEntry /\ wall < entry.expiry) =>
                        /\ ret'[p].kind = "return" /\ ret'[p].value = entry.user_data
                        /\ UNCHANGED <<provider_calls, auth_handler>>
                 /\ (entry = NoEntry \/ wall >= entry.expiry) =>
                        Len(provider_calls') = Len(provider_calls) + 1
                 /\ (entry # NoEntry /\ wall >= entry.expiry) =>
                        auth_handler'.cache[token] # entry
                 /\ ret'[p].kind = "raise" => auth_handler'.cache[token] = NoEntry
                 /\ ret'[p].kind = "return" =>
                        /\ auth_handler'.cache[token].user_data = ret'[p].value
                        /\ auth_handler'.cache[token].expiry > wall]_vars

\* C23 as stated: any two provider calls for one token are at least ttl
\* seconds apart, a lookup before the expiry is served from the cache, a
\* lookup at or after it re-verifies, and a failed verification is not cached.
C23_OncePerWindow ==
    /\ [](\A token \in Tokens : \A i, j \in CallsFor(token) :
              i < j => provider_calls[j].time >= provider_calls[i].time + ttl)
    /\ LookupSteps

\* C23 amended: a provider call that verified a token is followed by no
\* provider call for that token for ttl seconds; a lookup before the expiry
\* is served from the cache, a lookup at or after it re-verifies, and a
\* failed verification is not cached, so it is repeated by the next lookup.
C23_OncePerWindowAfterSuccess ==
    /\ [](\A token \in Tokens : \A i, j \in CallsFor(token) :
              (i < j /\ provider_calls[i].ok) =>
                  provider_calls[j].time >= provider_calls[i].time + ttl)
    /\ LookupSteps

\* a token was verified, served from the cache within the window, and
\* verified again by the lookup made at its expiry
C23_Witness ==
    /\ Len(provider_calls) = 2
    /\ provider_calls[1].token = provider_calls[2].token
    /\ provider_calls[1].ok
    /\ provider_calls[2].time = provider_calls[1].time + ttl
    /\ calls = 3

\* C24: with concurrent add_message callers on one context the stored
\* user-role rows never exceed the cap by more than one per further caller
\* (cap + 1 with two callers); the count never falls, and every append that
\* reaches the check with the count at the cap or above is rejected.
C24_CapExceededByOne ==
    /\ [](get_user_message_count_in_challenge_context(1)
              <= MAX_USER_MESSAGE_COUNT_FOR_CHALLENGE + (NumProcs - 1))
    /\ [][get_user_message_count_in_challenge_context(1)'
              >= get_user_message_count_in_challenge_context(1)]_vars
    /\ [][\A p \in Procs :
            (/\ add_message_count(p)
             /\ get_user_message_count_in_challenge_context(1)
                    >= MAX_USER_MESSAGE_COUNT_FOR_CHALLENGE) => CapError(ret'[p])]_vars

\* two appends passed the check below the cap and both were stored; the
\* append started after them was rejected
C24_Witness ==
    /\ get_user_message_count_in_challenge_context(1) > MAX_USER_MESSAGE_COUNT_FOR_CHALLENGE
    /\ \E p \in Procs : CapError(ret[p])

\* the evaluation row of context row i
EvaluationOf(i) ==
    challenge_evaluations[EvaluationIndex(user_challenge_contexts[i].id)]

\* C25: in every committed state a context has can_contribute true exactly
\* when the processed_at of its evaluation row is null; a context is
\* created with can_contribute true, and no step sets it from false to true.
C25_ContributeIffUnprocessed ==
    /\ [](\A i \in DOMAIN user_challenge_contexts :
              user_challenge_contexts[i].can_contribute <=> EvaluationOf(i).processed_at = Null)
    /\ [][\A i \in DOMAIN user_challenge_contexts' :
            IF i \in DOMAIN user_challenge_contexts
            THEN user_challenge_contexts'[i].can_contribute =>
                     user_challenge_contexts[i].can_contribute
            ELSE user_challenge_contexts'[i].can_contribute]_vars

\* a context that start_challenge created has been processed by an
\* evaluate call, while another one is still open
C25_Witness ==
    /\ Len(user_challenge_contexts) = 2
    /\ \E i, j \in DOMAIN user_challenge_contexts :
          /\ ~user_challenge_contexts[i].can_contribute
          /\ EvaluationOf(i).processed_at # Null
          /\ user_challenge_contexts[j].can_contribute

\* the owner of the context has asked for the evaluation of its challenge
RequestedByOwner(ctx) ==
    [user_id |-> ctx.user_id, challenge_id |-> ctx.challenge_id] \in evaluate_requests'

RowsAppended(cid) ==
    Len(SelectSeq(user_challenge_context_messages,
                  LAMBDA r : r.user_challenge_context_id = cid /\ r.content = "message"))

\* C27: whatever role the caller passes, the rows add_message_to_challenge
\* has appended to one context never exceed MAX_USER_MESSAGE_COUNT_FOR_CHALLENGE
\* (by more than the one row per further concurrent caller of C24).
C27_AppendsBoundedForEveryRole ==
    RowsAppended(1) <= MAX_USER_MESSAGE_COUNT_FOR_CHALLENGE + (NumProcs - 1)

\* the message rows as they were when the request of p started
LogBefore(p) ==
    IF pc[p] = "idle" THEN user_challenge_context_messages ELSE arg[p].log_before

\* C28: POST /challenges/{id}/add_message is all-or-nothing on the log: when
\* a request ends in an error, the stored message rows are the rows that
\* were stored before the request.
C28_ErrorLeavesLogUnchanged ==
    [][\A p \in Procs :
          (/\ ret'[p] # ret[p]
           /\ ret'[p].kind = "raise"
           /\ ret'[p].op = "add_message")
              => user_challenge_context_messages' = LogBefore(p)]_vars

\* C29: the message list an add_message request sends to the LLM is the
\* conversation in order: the default messages of the challenge, then the
\* history stored before the request in creation order, then the new
\* message as the last element, which appears that one time only.
C29_LlmMessagesInOrder ==
    \A p \in Procs :
        "llm_messages" \in DOMAIN ret[p] =>
            ret[p].llm_messages =
                load_challenge_context_messages(ret[p].log_before, ret[p].ctx_id)
                    \o <<ret[p].new_message>>

\* C30: every RedTeamResult a red-team run returns has total_attempts equal
\* to the length of its attempts list, also when model calls raised or the
\* operator entered an empty prompt.
C30_TotalAttemptsIsLength ==
    \A p \in Procs :
        (ret[p].kind = "return" /\ ret[p].op = "red_team") =>
            ret[p].value.total_attempts = Len(ret[p].value.attempts)

====
